---- MODULE Spec2Model ----
(***************************************************************************)
(* State-machine model of the mockinterview admin dashboard: the React     *)
(* components' state, the handlers that change it, and the rows of the     *)
(* hosted backend tables those handlers read and write.                    *)
(*                                                                         *)
(* Conventions.  A component's useState cells are the fields of one record *)
(* variable (bas = BatchAttendanceStats, pub = PublicBatchStats, ...),     *)
(* with the field names of the source.  A backend call is answered from    *)
(* the table rows, or fails (the "fault" inputs): supabase-js resolves a   *)
(* failed call to {data: null, error}.  One clock, now, in hours, is read  *)
(* by every new Date() / Date.now().  hist describes the step just taken:  *)
(* the handler (for a link check or a mutation; "other" otherwise), how    *)
(* the backend answered it, and the result of the latest link check.       *)
(***************************************************************************)
EXTENDS Integers, Sequences, FiniteSets, TLC

None == "none"

\* The null / undefined of each type of value.
NoPublicId == <<"none", 0>>
NoMessage == [type |-> "none", text |-> ""]
NoOverview == [batch_name |-> "none", total_students |-> 0]
NoUrlRow ==
    [id |-> 0, batch_id |-> None, public_id |-> NoPublicId, is_active |-> FALSE,
     expires_at |-> 0, created_at |-> 0, last_accessed_at |-> -1]
NoUrl ==
    [id |-> 0, public_id |-> NoPublicId, is_active |-> FALSE, expires_at |-> 0,
     created_at |-> 0]

\* ------------------------------------------------------------------ bounds
MaxTime == 36
TickStep == 12
MaxUrls == 2
MaxReq == 2
MaxDate == 1
DaysInMonth == 2
MaxSessions == 3
MaxInitSessions == 2
MaxStudents == 3
MaxPresent == 2
MaxStudentRows == 2
MaxUsers == 3
MaxScores == 3
MaxRounds == 3
TzOffsets == {-5, 0, 5}
MaxMonth == 1

BatchIds == {"b1", "b2"}
Bogus == <<"nolink", 0>>

\* ------------------------------------------------------- program constants
LinkTtlHours == 24
\* .limit(10) of loadSessions
SessionLimit == 10

MsgInvalid == "Invalid batch statistics link"
MsgNotFound == "Batch statistics link not found"
MsgRevoked == "This batch statistics link has been revoked"
MsgExpired == "This batch statistics link has expired"
MsgLoadFailed == "Failed to load batch statistics"
MsgGenerated == "Public URL generated successfully!"
MsgGenerateFailed == "Failed to generate public URL"
MsgUrlRevoked == "Public URL revoked successfully!"
MsgRevokeFailed == "Failed to revoke public URL"

VARIABLES
    now,        \* the clock, in hours
    batches,    \* table batches
    urls,       \* table batch_public_urls, in insertion order
    bas,        \* BatchAttendanceStats
    pub,        \* PublicBatchStats
    pubReq,     \* the loadBatchStats calls of PublicBatchStats in flight
    tz,         \* the browser's offset from UTC, in hours
    sessions,   \* table attendance_sessions joined with its attendance_records
    asm,        \* AttendanceSessionManager
    dash,       \* AttendanceDashboard
    cal,        \* AttendanceCalendar, mounted by AttendanceDashboard
    csv,        \* the data rows of the file exportToCSV wrote last
    students,   \* table batch_students
    users,      \* table admin_users
    bm,         \* BatchManagement
    um,         \* UserManagement
    rls,        \* the INSERT policies in force on table batches
    moduleScores,    \* table module_scores, the rows of the selected board
    interviewRounds, \* table interview_rounds, the rows of the selected leaderboard
    leaderboards,    \* table leaderboards, newest first
    abs,        \* ActivenessBoardSelector
    ad,         \* AdminDashboard
    app,        \* App: the address shown, the auth context and what is rendered
    hist        \* the step just taken

linkVars == <<urls, bas, pub, pubReq>>
attendVars == <<tz, sessions, asm, dash, cal>>
boardVars == <<moduleScores, interviewRounds, leaderboards, abs, ad>>
adminVars == <<students, users, bm, um, rls, boardVars, app>>

vars == <<now, batches, linkVars, attendVars, csv, adminVars, hist>>

\* ------------------------------------------------------------- sequences
Range(s) == {s[i] : i \in DOMAIN s}

RECURSIVE SeqFilter(_, _)
SeqFilter(s, keep) ==
    IF s = <<>> THEN <<>>
    ELSE IF Head(s) \in keep THEN <<Head(s)>> \o SeqFilter(Tail(s), keep)
    ELSE SeqFilter(Tail(s), keep)

\* Array.prototype.reverse
Reverse(s) == [i \in DOMAIN s |-> s[Len(s) + 1 - i]]

\* The least positive number not in `used`: the id of the next row.
FreshId(used) == CHOOSE n \in 1..(Cardinality(used) + 1) :
                    n \notin used /\ \A m \in 1..(n - 1) : m \in used

\* Every listing of the set S as a sequence without repetition.
Orderings(S) ==
    {s \in [1..Cardinality(S) -> S] : \A i, j \in DOMAIN s : i # j => s[i] # s[j]}

\* A string is the sequence of its characters.
Lower(c) == CASE c = "A" -> "a" [] c = "B" -> "b" [] OTHER -> c

\* String.prototype.toLowerCase
toLowerCase(str) == [i \in DOMAIN str |-> Lower(str[i])]

\* String.prototype.includes
includes(str, sub) ==
    \E k \in 0..(Len(str) - Len(sub)) :
        \A i \in 1..Len(sub) : str[k + i] = sub[i]

BaseRank(c) == IF Lower(c) = "a" THEN 1 ELSE 2
CaseRank(c) == IF c = Lower(c) THEN 0 ELSE 1

RECURSIVE LexCompare(_, _)
\* -1, 0, 1: the sequences of numbers x and y compared element by element.
LexCompare(x, y) ==
    IF x = <<>> /\ y = <<>> THEN 0
    ELSE IF x = <<>> THEN -1
    ELSE IF y = <<>> THEN 1
    ELSE IF Head(x) < Head(y) THEN -1
    ELSE IF Head(x) > Head(y) THEN 1
    ELSE LexCompare(Tail(x), Tail(y))

\* String.prototype.localeCompare: by letters first, by case among equal letters
\* (lower case first).
localeCompare(x, y) ==
    LET base == LexCompare([i \in DOMAIN x |-> BaseRank(x[i])],
                           [i \in DOMAIN y |-> BaseRank(y[i])])
    IN  IF base # 0 THEN base
        ELSE LexCompare([i \in DOMAIN x |-> CaseRank(x[i])],
                        [i \in DOMAIN y |-> CaseRank(y[i])])

\* x put into the sorted sequence before the first element it is less than.
InsertSorted(sorted, x, compare) ==
    LET after == {k \in DOMAIN sorted : compare[<<x, sorted[k]>>] < 0}
        pos == IF after = {} THEN Len(sorted) + 1
               ELSE CHOOSE k \in after : \A j \in after : k <= j
    IN  SubSeq(sorted, 1, pos - 1) \o <<x>> \o SubSeq(sorted, pos, Len(sorted))

\* Array.prototype.sort with a comparator: a stable sort. The comparator is
\* given as its table over the pairs of elements of s.
Sort(s, compare) ==
    LET upTo[i \in 0..Len(s)] ==
            IF i = 0 THEN <<>> ELSE InsertSorted(upTo[i - 1], s[i], compare)
    IN  upTo[Len(s)]

\* ----------------------------------------------------- backend (external)
\* get_batch_attendance_stats: the per-student rows of a batch.
BackendStudentStats(b) ==
    IF b = "b1"
    THEN << [student_name |-> <<"a", "b">>, sessions_present |-> 3,
             total_sessions |-> 3, attendance_percentage |-> 100],
            [student_name |-> <<"B">>, sessions_present |-> 1,
             total_sessions |-> 3, attendance_percentage |-> 33] >>
    ELSE << [student_name |-> <<"a">>, sessions_present |-> 1,
             total_sessions |-> 2, attendance_percentage |-> 50] >>

\* get_batch_overview: at most one row per batch.
BackendOverview(b) ==
    << [batch_name |-> b, total_students |-> Len(BackendStudentStats(b))] >>

ByName(x, y) == localeCompare(x.name, y.name)

\* batches rows WHERE is_active ORDER BY name ascending.
BackendActiveBatches ==
    LET rows == SeqFilter(batches, {b \in Range(batches) : b.is_active})
    IN  Sort(rows, [p \in Range(rows) \X Range(rows) |-> ByName(p[1], p[2])])

\* batch_public_urls rows WHERE public_id = pid.
UrlsByPublicId(pid) == {i \in DOMAIN urls : urls[i].public_id = pid}

\* .maybeSingle(): the row, null for no row, an error for several rows.
MaybeSingle(rows, fault) ==
    IF fault \/ Cardinality(rows) > 1 THEN [error |-> TRUE, data |-> NoUrlRow]
    ELSE IF rows = {} THEN [error |-> FALSE, data |-> NoUrlRow]
    ELSE [error |-> FALSE, data |-> urls[CHOOSE i \in rows : TRUE]]

\* interface BatchPublicUrl: the columns of a row the component declares.
BatchPublicUrl(row) ==
    [id |-> row.id, public_id |-> row.public_id, is_active |-> row.is_active,
     expires_at |-> row.expires_at, created_at |-> row.created_at]

\* batch_public_urls rows WHERE batch_id = b ORDER BY created_at descending:
\* every order the backend may return (rows of equal created_at in any order).
UrlOrders(table, b) ==
    LET ids == {i \in DOMAIN table : table[i].batch_id = b}
    IN  { [k \in DOMAIN o |-> BatchPublicUrl(table[o[k]])] :
            o \in {p \in Orderings(ids) :
                     \A i, j \in DOMAIN p :
                        i < j => table[p[i]].created_at >= table[p[j]].created_at} }

\* ------------------------------------------------ BatchAttendanceStats
\* `batch-${selectedBatchId.substring(0, 8)}-${Date.now()}`
PublicIdFor(b, t) == <<b, t>>

\* ExpiresAtFor with the hours left as they are.
ExpiresAtForNoShift(t) == t

\* expiresAt.setHours(expiresAt.getHours() + 24)
ExpiresAtFor(t) == t + LinkTtlHours

isExpired(expiresAt) == expiresAt < now

RECURSIVE FindFromAnyExpiry(_, _)
\* FindFrom with the predicate url => url.is_active.
FindFromAnyExpiry(list, i) ==
    IF i > Len(list) THEN NoUrl
    ELSE IF list[i].is_active THEN list[i]
    ELSE FindFromAnyExpiry(list, i + 1)

RECURSIVE FindFrom(_, _)
\* Array.prototype.find over publicUrls from index i on.
FindFrom(list, i) ==
    IF i > Len(list) THEN NoUrl
    ELSE IF list[i].is_active /\ ~isExpired(list[i].expires_at) THEN list[i]
    ELSE FindFrom(list, i + 1)

activeUrl == FindFrom(bas.publicUrls, 1)

\* The component is past its two early returns (spinner, "no batches").
BasRendered == Len(bas.batches) > 0

GenerateOffered == BasRendered /\ activeUrl = NoUrl

\* loadBatchStats, applied to the component state s.
BasLoadBatchStats(s, fStats, fOverview) ==
    IF s.selectedBatchId = "" THEN s
    ELSE IF fStats THEN [s EXCEPT !.loading = FALSE]
    ELSE IF fOverview
    THEN [s EXCEPT !.studentStats = BackendStudentStats(s.selectedBatchId),
                   !.loading = FALSE]
    ELSE LET ov == BackendOverview(s.selectedBatchId)
         IN  [s EXCEPT !.studentStats = BackendStudentStats(s.selectedBatchId),
                       !.batchOverview = IF Len(ov) > 0 THEN ov[1] ELSE NoOverview,
                       !.loading = FALSE]

\* loadPublicUrls, applied to s, the backend answering with the rows `rows`.
BasLoadPublicUrls(s, fault, rows) ==
    IF s.selectedBatchId = "" \/ fault THEN s
    ELSE [s EXCEPT !.publicUrls = rows]

Step(op, result, fault) ==
    [op |-> op, result |-> result, fault |-> fault, check |-> hist.check]

Other == Step("other", "ok", FALSE)

\* useEffect(() => loadBatches(), []) and, when it selects the first batch,
\* the [selectedBatchId] effect's two loads.
BasLoadBatches(fault, fStats, fOverview, fUrls) ==
    /\ bas.loading /\ bas.batches = <<>>
    /\ IF fault
       THEN /\ bas' = [bas EXCEPT !.loading = FALSE]
       ELSE LET data == BackendActiveBatches
                s0 == [bas EXCEPT !.batches = data, !.loading = FALSE]
            IN  IF Len(data) > 0 /\ bas.selectedBatchId = ""
                THEN \E rows \in UrlOrders(urls, data[1].id) :
                       LET s1 == [s0 EXCEPT !.selectedBatchId = data[1].id]
                           s2 == BasLoadBatchStats(s1, fStats, fOverview)
                       IN  bas' = BasLoadPublicUrls(s2, fUrls, rows)
                ELSE bas' = s0
    /\ hist' = Step("bas.loadBatches", IF fault THEN "error" ELSE "ok", fault)
    /\ UNCHANGED <<now, batches, urls, pub, pubReq, attendVars, csv, adminVars>>

\* <select onChange={e => setSelectedBatchId(e.target.value)}> and the
\* [selectedBatchId] effect.
BasSelectBatch(b, fStats, fOverview, fUrls) ==
    /\ BasRendered
    /\ b \in {x.id : x \in Range(bas.batches)}
    /\ b # bas.selectedBatchId
    /\ \E rows \in UrlOrders(urls, b) :
          LET s1 == [bas EXCEPT !.selectedBatchId = b]
              s2 == BasLoadBatchStats(s1, fStats, fOverview)
          IN  bas' = BasLoadPublicUrls(s2, fUrls, rows)
    /\ hist' = Other
    /\ UNCHANGED <<now, batches, urls, pub, pubReq, attendVars, csv, adminVars>>

\* The same change of the <select>, the two loads of the effect staying in
\* flight: each call keeps the selectedBatchId of the render that made it.
\* Calls alike are kept once.
BasSelectBatchStart(b) ==
    /\ BasRendered
    /\ b \in {x.id : x \in Range(bas.batches)}
    /\ b # bas.selectedBatchId
    /\ bas' = [bas EXCEPT !.selectedBatchId = b, !.loading = TRUE,
                          !.calls = @ \cup {[kind |-> "stats", batch |-> b],
                                            [kind |-> "urls", batch |-> b]}]
    /\ hist' = Other
    /\ UNCHANGED <<now, batches, urls, pub, pubReq, attendVars, csv, adminVars>>

\* rpc('get_batch_attendance_stats') of a loadBatchStats call resolves.
BasStatsAnswer(s, call, fault) ==
    IF fault THEN [s EXCEPT !.loading = FALSE]
    ELSE [s EXCEPT !.studentStats = BackendStudentStats(call.batch)]

BasStatsArrive(call, fault) ==
    /\ call \in bas.calls /\ call.kind = "stats"
    /\ bas' = [BasStatsAnswer(bas, call, fault) EXCEPT !.calls =
                  IF fault THEN @ \ {call}
                  ELSE (@ \ {call}) \cup {[kind |-> "overview", batch |-> call.batch]}]
    /\ hist' = Step("bas.stats", IF fault THEN "error" ELSE "ok", fault)
    /\ UNCHANGED <<now, batches, urls, pub, pubReq, attendVars, csv, adminVars>>

\* rpc('get_batch_overview') of a loadBatchStats call resolves; the finally
\* block.
BasOverviewArrive(call, fault) ==
    /\ call \in bas.calls /\ call.kind = "overview"
    /\ LET ov == BackendOverview(call.batch)
       IN  bas' = [bas EXCEPT !.batchOverview =
                                 IF fault THEN @
                                 ELSE IF Len(ov) > 0 THEN ov[1] ELSE NoOverview,
                              !.loading = FALSE,
                              !.calls = @ \ {call}]
    /\ hist' = Step("bas.overview", IF fault THEN "error" ELSE "ok", fault)
    /\ UNCHANGED <<now, batches, urls, pub, pubReq, attendVars, csv, adminVars>>

\* The batch_public_urls query of a loadPublicUrls call resolves.
BasUrlsArrive(call, fault) ==
    /\ call \in bas.calls /\ call.kind = "urls"
    /\ \E rows \in UrlOrders(urls, call.batch) :
          bas' = [bas EXCEPT !.publicUrls = IF fault THEN @ ELSE rows,
                             !.calls = @ \ {call}]
    /\ hist' = Step("bas.urls", IF fault THEN "error" ELSE "ok", fault)
    /\ UNCHANGED <<now, batches, urls, pub, pubReq, attendVars, csv, adminVars>>

\* The row generatePublicUrl inserts; id and created_at are the table's defaults.
NewUrlRow(b) ==
    [id |-> FreshId({urls[i].id : i \in DOMAIN urls}),
     batch_id |-> b,
     public_id |-> PublicIdFor(b, now),
     is_active |-> TRUE,
     expires_at |-> ExpiresAtFor(now),
     created_at |-> now,
     last_accessed_at |-> -1]

generatePublicUrl(fInsert, fLoad) ==
    /\ GenerateOffered
    /\ ~bas.generating
    /\ bas.selectedBatchId # ""
    /\ Len(urls) < MaxUrls
    /\ IF fInsert
       THEN /\ bas' = [bas EXCEPT !.generating = FALSE,
                                  !.message = [type |-> "error", text |-> MsgGenerateFailed]]
            /\ urls' = urls
       ELSE /\ urls' = Append(urls, NewUrlRow(bas.selectedBatchId))
            /\ \E rows \in UrlOrders(urls', bas.selectedBatchId) :
                 bas' = BasLoadPublicUrls(
                          [bas EXCEPT !.generating = FALSE,
                                      !.message = [type |-> "success", text |-> MsgGenerated]],
                          fLoad, rows)
    /\ hist' = Step("generatePublicUrl",
                    IF fInsert THEN "error" ELSE "ok", fInsert)
    /\ UNCHANGED <<now, batches, pub, pubReq, attendVars, csv, adminVars>>

revokePublicUrl(urlId, confirmed, fUpdate, fLoad) ==
    /\ BasRendered
    /\ activeUrl # NoUrl
    /\ urlId = activeUrl.id
    /\ IF ~confirmed
       THEN /\ UNCHANGED <<bas, urls>>
            /\ hist' = Step("revokePublicUrl", "cancelled", FALSE)
       ELSE /\ IF fUpdate
               THEN /\ urls' = urls
                    /\ bas' = [bas EXCEPT !.message =
                                 [type |-> "error", text |-> MsgRevokeFailed]]
               ELSE /\ urls' = [urls EXCEPT ![urlId].is_active = FALSE]
                    /\ \E rows \in UrlOrders(urls', bas.selectedBatchId) :
                         bas' = BasLoadPublicUrls(
                                  [bas EXCEPT !.message =
                                     [type |-> "success", text |-> MsgUrlRevoked]],
                                  fLoad, rows)
            /\ hist' = Step("revokePublicUrl",
                            IF fUpdate THEN "error" ELSE "ok", fUpdate)
    /\ UNCHANGED <<now, batches, pub, pubReq, attendVars, csv, adminVars>>

\* ------------------------------------------------- refresh intervals
\* A component keeps `timers`, the intervals it has armed with setInterval and
\* not cleared, and `interval`, the variable of the latest run of its interval
\* effect (0 when that run armed none).

\* An effect cleanup that forgets its interval without clearing it.
ForgetInterval(s) == [s EXCEPT !.interval = 0]

\* return () => { if (interval) clearInterval(interval) }
ClearInterval(s) == [s EXCEPT !.timers = @ \ {s.interval}, !.interval = 0]

\* if (cond) interval = setInterval(...)
ArmInterval(s, cond) ==
    IF cond
    THEN LET id == FreshId(s.timers)
         IN  [s EXCEPT !.timers = @ \cup {id}, !.interval = id]
    ELSE s

\* One run of an interval effect whose dependencies changed: the cleanup of
\* the previous run, then the body.
RerunIntervalEffect(s, cond) == ArmInterval(ClearInterval(s), cond)

\* ------------------------------------------------------ PublicBatchStats
\* useEffect(..., [autoRefresh, batchId]) after the state went from old to s.
PubIntervalEffect(s, old) ==
    IF ~s.mounted \/ <<s.autoRefresh, s.batchId>> = <<old.autoRefresh, old.batchId>>
    THEN s
    ELSE RerunIntervalEffect(s, s.autoRefresh /\ s.batchId # None)

\* What the component renders: spinner, error page, or the statistics.
PubView ==
    IF ~pub.mounted THEN "unmounted"
    ELSE IF pub.loading THEN "spinner"
    ELSE IF pub.error # None THEN "error"
    ELSE "stats"

PubShowsStats == PubView = "stats"

FreeReq == {r \in DOMAIN pubReq : pubReq[r].pc = "idle"}

\* A call of loadBatchStats carries, besides its position and what it
\* closed over, its place among the calls in flight in the order they were
\* made (issued), and whether a call made after it has already ended (late).
IdleReq ==
    [pc |-> "idle", isRefresh |-> FALSE, batch |-> None, issued |-> 0,
     late |-> FALSE]

\* The call in slot r ends; the calls in flight stay as they are.
PubRetire(reqs, r) ==
    [q \in DOMAIN reqs |->
        IF q = r THEN IdleReq
        ELSE IF reqs[q].pc = "idle" THEN reqs[q]
        ELSE IF reqs[q].issued < reqs[r].issued
             THEN [reqs[q] EXCEPT !.late = TRUE]
             ELSE [reqs[q] EXCEPT !.issued = @ - 1]]

\* finally { setLoading(false); setRefreshing(false) }
PubFinally(s) == [s EXCEPT !.loading = FALSE, !.refreshing = FALSE]

\* A response that is dropped when a call made later has already ended.
PubSettleUnlessLate(s, req, error) ==
    IF req.late THEN s ELSE PubFinally([s EXCEPT !.error = error])

\* The call req ends: setError and the finally block.
PubSettle(s, req, error) == PubFinally([s EXCEPT !.error = error])

\* loadBatchStats up to its first await, on the component state s.
PubBegin(s, isRefresh) ==
    IF s.publicId = NoPublicId
    THEN [s EXCEPT !.error = MsgInvalid, !.loading = FALSE]
    ELSE IF isRefresh THEN [s EXCEPT !.refreshing = TRUE]
    ELSE [s EXCEPT !.loading = TRUE]

PubStart(s, isRefresh, op) ==
    /\ FreeReq # {}
    /\ pub' = PubBegin(s, isRefresh)
    /\ IF s.publicId = NoPublicId
       THEN /\ pubReq' = pubReq
            /\ hist' = Step(op, "ok", FALSE)
       ELSE LET r == CHOOSE x \in FreeReq : \A y \in FreeReq : x <= y
            IN  /\ pubReq' = [pubReq EXCEPT ![r] =
                                [pc |-> "lookup", isRefresh |-> isRefresh,
                                 batch |-> None, late |-> FALSE,
                                 issued |-> Cardinality(DOMAIN pubReq \ FreeReq) + 1]]
                /\ hist' = Step(op, "ok", FALSE)
    /\ UNCHANGED <<now, batches, urls, bas, attendVars, csv, adminVars>>

\* The route /batch-stats/:publicId is opened: useEffect(..., [publicId]).
PubMount(pid) ==
    /\ ~pub.mounted /\ pub.publicId = NoPublicId /\ pub.loading
    /\ pid \in {NoPublicId, Bogus} \cup {urls[i].public_id : i \in DOMAIN urls}
    /\ PubStart([pub EXCEPT !.mounted = TRUE, !.publicId = pid], FALSE, "other")

\* A 60 s interval of the component is armed.
PubTimerArmed == pub.timers # {}

\* An armed interval fires: loadBatchStats(true).
PubTimerRefresh ==
    /\ PubTimerArmed
    /\ PubStart(pub, TRUE, "pub.timer")

\* The route is left: the component unmounts and its effect cleanups run.
PubUnmount ==
    /\ pub.mounted
    /\ pub' = ClearInterval([pub EXCEPT !.mounted = FALSE])
    /\ hist' = Other
    /\ UNCHANGED <<now, batches, urls, bas, pubReq, attendVars, csv, adminVars>>

\* The Refresh button of the statistics page, disabled while refreshing.
PubManualRefresh ==
    /\ PubShowsStats
    /\ ~pub.refreshing
    /\ PubStart(pub, TRUE, "other")

PubToggleAutoRefresh ==
    /\ PubShowsStats
    /\ pub' = PubIntervalEffect([pub EXCEPT !.autoRefresh = ~pub.autoRefresh], pub)
    /\ hist' = Other
    /\ UNCHANGED <<now, batches, urls, bas, pubReq, attendVars, csv, adminVars>>

\* Classify without its is_active test.
ClassifyNoRevokedTest(ans) ==
    IF ans.error THEN "failed"
    ELSE IF ans.data = NoUrlRow THEN "notfound"
    ELSE IF ans.data.expires_at < now THEN "expired"
    ELSE "ok"

\* Classify without its expires_at test.
ClassifyNoExpiryTest(ans) ==
    IF ans.error THEN "failed"
    ELSE IF ans.data = NoUrlRow THEN "notfound"
    ELSE IF ~ans.data.is_active THEN "revoked"
    ELSE "ok"

\* The outcome of the link check on the answer `ans` of the lookup.
\* The checks with the expiry test ahead of the is_active test.
ClassifyExpiryFirst(ans) ==
    IF ans.error THEN "failed"
    ELSE IF ans.data = NoUrlRow THEN "notfound"
    ELSE IF ans.data.expires_at < now THEN "expired"
    ELSE IF ~ans.data.is_active THEN "revoked"
    ELSE "ok"

Classify(ans) ==
    IF ans.error THEN "failed"
    ELSE IF ans.data = NoUrlRow THEN "notfound"
    ELSE IF ~ans.data.is_active THEN "revoked"
    ELSE IF ans.data.expires_at < now THEN "expired"
    ELSE "ok"

ErrorOf(outcome) ==
    CASE outcome = "failed" -> MsgLoadFailed
      [] outcome = "notfound" -> MsgNotFound
      [] outcome = "revoked" -> MsgRevoked
      [] outcome = "expired" -> MsgExpired

\* The first await of loadBatchStats resolves: the link check.
PubLookup(r, fault) ==
    /\ pubReq[r].pc = "lookup"
    /\ LET ans == MaybeSingle(UrlsByPublicId(pub.publicId), fault)
           outcome == Classify(ans)
       IN  /\ IF outcome = "ok"
              THEN /\ pub' = PubIntervalEffect(
                                [pub EXCEPT !.batchId = ans.data.batch_id], pub)
                   /\ pubReq' = [pubReq EXCEPT ![r].pc = "stats",
                                               ![r].batch = ans.data.batch_id]
              ELSE /\ pub' = PubSettle(pub, pubReq[r], ErrorOf(outcome))
                   /\ pubReq' = PubRetire(pubReq, r)
           /\ hist' = [op |-> "lookup", result |-> outcome,
                       fault |-> ans.error,
                       check |-> IF ans.error THEN hist.check ELSE outcome]
    /\ UNCHANGED <<now, batches, urls, bas, attendVars, csv, adminVars>>

\* rpc('get_batch_attendance_stats') resolves.
PubStats(r, fault) ==
    /\ pubReq[r].pc = "stats"
    /\ IF fault
       THEN /\ pub' = PubSettle(pub, pubReq[r], MsgLoadFailed)
            /\ pubReq' = PubRetire(pubReq, r)
       ELSE /\ pub' = [pub EXCEPT !.studentStats = BackendStudentStats(pubReq[r].batch)]
            /\ pubReq' = [pubReq EXCEPT ![r].pc = "overview"]
    /\ hist' = Step("pub.stats", IF fault THEN "error" ELSE "ok", fault)
    /\ UNCHANGED <<now, batches, urls, bas, attendVars, csv, adminVars>>

\* rpc('get_batch_overview') resolves.
PubOverview(r, fault) ==
    /\ pubReq[r].pc = "overview"
    /\ IF fault
       THEN /\ pub' = PubSettle(pub, pubReq[r], MsgLoadFailed)
            /\ pubReq' = PubRetire(pubReq, r)
       ELSE /\ LET ov == BackendOverview(pubReq[r].batch)
               IN  pub' = [pub EXCEPT !.batchOverview =
                                        IF Len(ov) > 0 THEN ov[1] ELSE NoOverview]
            /\ pubReq' = [pubReq EXCEPT ![r].pc = "touch"]
    /\ hist' = Step("pub.overview", IF fault THEN "error" ELSE "ok", fault)
    /\ UNCHANGED <<now, batches, urls, bas, attendVars, csv, adminVars>>

\* An update that also renews the link.
TouchedAndRenewed(row) ==
    [row EXCEPT !.last_accessed_at = now, !.expires_at = ExpiresAtFor(now)]

\* .update({ last_accessed_at: new Date().toISOString() })
Touched(row) == [row EXCEPT !.last_accessed_at = now]

\* The update of last_accessed_at resolves (its error is not looked at), then
\* setError(null) and the finally block.
PubTouch(r, fault) ==
    /\ pubReq[r].pc = "touch"
    /\ urls' = IF fault THEN urls
               ELSE [i \in DOMAIN urls |->
                       IF urls[i].public_id = pub.publicId
                       THEN Touched(urls[i])
                       ELSE urls[i]]
    /\ pub' = PubSettle(pub, pubReq[r], None)
    /\ pubReq' = PubRetire(pubReq, r)
    /\ hist' = Step(IF pubReq[r].late THEN "pub.late" ELSE "other", "ok", FALSE)
    /\ UNCHANGED <<now, batches, bas, attendVars, csv, adminVars>>

\* ----------------------------------------------------------------- clock
Tick ==
    /\ now + TickStep <= MaxTime
    /\ now' = now + TickStep
    /\ hist' = Other
    /\ UNCHANGED <<batches, urls, bas, pub, pubReq, attendVars, csv, adminVars>>

\* ---------------------------------------------------------- attendance
\* The nulls of the attendance state, typed like the values they stand in for.
NoSession ==
    [id |-> 0, session_date |-> -1, batch |-> None, is_active |-> FALSE,
     expires_at |-> -1]
NoStats ==
    [date |-> -1, batchName |-> None, total_present |-> 0,
     attendance_percentage |-> 0, records |-> <<>>]
NoDay ==
    [date |-> -1, count |-> 0, percentage |-> 0, sessionId |-> 0,
     batchName |-> None]

MsgSessionExists == "Attendance session for today already exists!"
MsgCreateFailed == "Failed to create attendance session"
MsgSessionCreated == "Attendance session created successfully!"
MsgUpdateFailed == "Failed to update session status"
DefaultBatch == "Default Batch"

\* Dates are day numbers; a month is DaysInMonth consecutive days.
AllDates == 0..MaxDate

\* new Date().toISOString().split('T')[0]: the date in UTC.
Today == now \div 24

\* The local calendar day and month of the clock.
LocalDay == (now + tz) \div 24
LocalMonth == LocalDay \div DaysInMonth

\* toISOString().split('T')[0] of local midnight of local day d.
ISODateOfLocalDay(d) == (d * 24 - tz) \div 24

\* expiresAt.setHours(23, 59, 59, 999): the last hour of the local day, in UTC.
EndOfLocalDay == (LocalDay + 1) * 24 - tz - 1

\* The rows `o` lists, in its order.
Rows(table, o) == [i \in DOMAIN o |-> table[o[i]]]

\* The orders ORDER BY session_date DESC may give the rows S of the table.
DateDescOrders(table, S) ==
    {o \in Orderings(S) :
        \A i, j \in DOMAIN o :
            i < j => table[o[i]].session_date >= table[o[j]].session_date}

\* .limit(n)
Take(s, n) == SubSeq(s, 1, IF Len(s) < n THEN Len(s) ELSE n)

\* The columns of attendance_sessions a component keeps.
AttendanceSession(row) ==
    [id |-> row.id, session_date |-> row.session_date, batch |-> row.batch,
     is_active |-> row.is_active, expires_at |-> row.expires_at]

\* The unique constraint of attendance_sessions: one row per (batch, date).
SessionExists(table, batch, date) ==
    \E i \in DOMAIN table :
        table[i].batch = batch /\ table[i].session_date = date

\* ------------------------------------------------ AttendanceSessionManager
InitAsm ==
    [sessions |-> <<>>, loading |-> TRUE, creating |-> FALSE,
     message |-> NoMessage]

\* loadSessions, answered with `rows` unless it faults.
AsmLoadSessions(s, fault, rows) ==
    IF fault THEN [s EXCEPT !.loading = FALSE]
    ELSE [s EXCEPT !.sessions = Take(rows, SessionLimit), !.loading = FALSE]

\* The component mounts: useEffect(() => loadSessions(), []).
AsmMount(fault) ==
    /\ \E o \in DateDescOrders(sessions, DOMAIN sessions) :
          asm' = AsmLoadSessions(InitAsm, fault,
                                 Rows([i \in DOMAIN sessions |->
                                          AttendanceSession(sessions[i])], o))
    /\ hist' = Step("asm.loadSessions", IF fault THEN "error" ELSE "ok", fault)
    /\ UNCHANGED <<now, batches, linkVars, tz, sessions, dash, cal, csv, adminVars>>

\* sessions.find(s => s.session_date === today)
todaySession ==
    IF \E i \in DOMAIN asm.sessions : asm.sessions[i].session_date = Today
    THEN asm.sessions[CHOOSE i \in DOMAIN asm.sessions :
            /\ asm.sessions[i].session_date = Today
            /\ \A j \in 1..(i - 1) : asm.sessions[j].session_date # Today]
    ELSE NoSession

\* createTodaySession with every failure reported alike.
CreateMessageGeneric(code) == MsgCreateFailed

\* The message createTodaySession shows for the error code of the insert.
CreateMessage(code) ==
    IF code = "23505" THEN MsgSessionExists ELSE MsgCreateFailed

NewSession ==
    [id |-> Len(sessions) + 1, session_date |-> Today, batch |-> None,
     is_active |-> TRUE, expires_at |-> EndOfLocalDay, marked |-> <<>>]

createTodaySession(fInsert, fLoad) ==
    /\ ~asm.loading /\ ~asm.creating /\ todaySession = NoSession
    /\ Len(sessions) < MaxSessions
    /\ LET code == IF fInsert THEN "other"
                   ELSE IF SessionExists(sessions, None, Today) THEN "23505"
                   ELSE "none"
       IN  /\ IF code = "none"
              THEN /\ sessions' = Append(sessions, NewSession)
                   /\ \E o \in DateDescOrders(sessions', DOMAIN sessions') :
                        asm' = AsmLoadSessions(
                                 [asm EXCEPT !.message =
                                    [type |-> "success", text |-> MsgSessionCreated]],
                                 fLoad,
                                 Rows([i \in DOMAIN sessions' |->
                                          AttendanceSession(sessions'[i])], o))
              ELSE /\ asm' = [asm EXCEPT !.message =
                                 [type |-> "error", text |-> CreateMessage(code)]]
                   /\ UNCHANGED sessions
           /\ hist' = Step("createTodaySession",
                           IF code = "none" THEN "ok" ELSE "error", fInsert)
    /\ UNCHANGED <<now, batches, linkVars, tz, dash, cal, csv, adminVars>>

\* An update that also moves expires_at to the end of the current day.
ToggledAndExtended(row, currentStatus) ==
    [row EXCEPT !.is_active = ~currentStatus, !.expires_at = EndOfLocalDay]

\* .update({ is_active: !currentStatus }) on one row.
Toggled(row, currentStatus) == [row EXCEPT !.is_active = ~currentStatus]

\* session.is_active && !isExpired(session.expires_at): the 'Active' badge.
DisplayedActive(session) == session.is_active /\ ~isExpired(session.expires_at)

toggleSessionStatus(fUpdate, fLoad) ==
    /\ ~asm.loading /\ todaySession # NoSession
    /\ LET sessionId == todaySession.id
           currentStatus == todaySession.is_active
       IN  IF fUpdate
           THEN /\ asm' = [asm EXCEPT !.message =
                              [type |-> "error", text |-> MsgUpdateFailed]]
                /\ UNCHANGED sessions
           ELSE /\ sessions' = [i \in DOMAIN sessions |->
                                  IF sessions[i].id = sessionId
                                  THEN Toggled(sessions[i], currentStatus)
                                  ELSE sessions[i]]
                /\ \E o \in DateDescOrders(sessions', DOMAIN sessions') :
                     asm' = AsmLoadSessions(
                              [asm EXCEPT !.message =
                                 [type |-> "success",
                                  text |-> IF ~currentStatus
                                           THEN "Session activated successfully!"
                                           ELSE "Session deactivated successfully!"]],
                              fLoad,
                              Rows([i \in DOMAIN sessions' |->
                                       AttendanceSession(sessions'[i])], o))
    /\ hist' = Step("toggleSessionStatus", IF fUpdate THEN "error" ELSE "ok", fUpdate)
    /\ UNCHANGED <<now, batches, linkVars, tz, dash, cal, csv, adminVars>>

\* ------------------------------------------------------ AttendanceCalendar
InitCal(month) ==
    [currentMonth |-> month, attendanceData |-> [d \in AllDates |-> NoDay],
     loading |-> TRUE]

\* The local days the grid of the displayed month shows.
MonthDays(month) == (month * DaysInMonth)..(month * DaysInMonth + DaysInMonth - 1)

\* The rows .gte('session_date', startDate).lte('session_date', endDate)
\* selects for the displayed month.
MonthRows(month) ==
    LET startDate == ISODateOfLocalDay(month * DaysInMonth)
        endDate == ISODateOfLocalDay(month * DaysInMonth + DaysInMonth - 1)
    IN  {i \in DOMAIN sessions :
            /\ sessions[i].session_date >= startDate
            /\ sessions[i].session_date <= endDate}

\* The share of a roster of MaxStudents students that `count` records make.
PercentageOfRoster(count) == (count * 100) \div MaxStudents

\* count > 0 ? 100 : 0, the percentage of a day in both components.
Percentage(count) == IF count > 0 THEN 100 ELSE 0

\* getAttendanceColor: the colour bucket of a calendar cell.
getAttendanceColor(percentage) ==
    IF percentage >= 70 THEN "bg-green-500"
    ELSE IF percentage >= 50 THEN "bg-yellow-500"
    ELSE "bg-red-500"

\* The entry of attendanceMap for one session.
DayAttendance(row) ==
    LET count == Len(row.marked)
    IN  [date |-> row.session_date, count |-> count,
         percentage |-> Percentage(count), sessionId |-> row.id,
         batchName |-> IF row.batch = None THEN DefaultBatch ELSE row.batch]

\* attendanceMap after the loop over the sessions in the order `o`.
AttendanceMap(o) ==
    LET upTo[k \in 0..Len(o)] ==
            IF k = 0 THEN [d \in AllDates |-> NoDay]
            ELSE [upTo[k - 1] EXCEPT ![sessions[o[k]].session_date] =
                      DayAttendance(sessions[o[k]])]
    IN  upTo[Len(o)]

\* loadMonthAttendance of the calendar state s, the rows arriving in order o.
loadMonthAttendance(s, o, fSessions, fRecords) ==
    IF fSessions \/ (fRecords /\ Len(o) > 0)
    THEN [s EXCEPT !.loading = FALSE]
    ELSE [s EXCEPT !.attendanceData = AttendanceMap(o), !.loading = FALSE]

\* previousMonth / nextMonth, and the effect on currentMonth that follows.
CalSetMonth(month, fSessions, fRecords) ==
    /\ ~cal.loading
    /\ month \in (0 - MaxMonth)..MaxMonth
    /\ \E o \in Orderings(MonthRows(month)) :
          cal' = loadMonthAttendance([cal EXCEPT !.currentMonth = month],
                                     o, fSessions, fRecords)
    /\ hist' = Step("loadMonthAttendance",
                    IF fSessions \/ (fRecords /\ MonthRows(month) # {})
                    THEN "error" ELSE "ok",
                    fSessions \/ fRecords)
    /\ UNCHANGED <<now, batches, linkVars, tz, sessions, asm, dash, csv, adminVars>>

previousMonth(fSessions, fRecords) ==
    CalSetMonth(cal.currentMonth - 1, fSessions, fRecords)

nextMonth(fSessions, fRecords) ==
    CalSetMonth(cal.currentMonth + 1, fSessions, fRecords)

\* ----------------------------------------------------- AttendanceDashboard
InitDash(today) ==
    [sessions |-> <<>>, batches |-> <<>>, selectedBatchId |-> "all",
     selectedDate |-> today, stats |-> NoStats, loading |-> TRUE,
     refreshing |-> FALSE, searchFilter |-> <<>>, autoRefresh |-> FALSE,
     mounted |-> FALSE, interval |-> 0, timers |-> {}, timerSessions |-> <<>>,
     requests |-> <<>>]

\* useEffect(..., [autoRefresh, selectedDate]) after the state went from old
\* to s; the interval's callback is the loadDailyStats of that render, which
\* closes over its session list.
DashIntervalEffect(s, old) ==
    IF ~s.mounted
         \/ <<s.autoRefresh, s.selectedDate>> = <<old.autoRefresh, old.selectedDate>>
    THEN s
    ELSE [RerunIntervalEffect(s, s.autoRefresh)
            EXCEPT !.timerSessions = IF s.autoRefresh THEN s.sessions ELSE <<>>]

\* The rows loadSessions asks for under the batch filter b.
DashRows(b) ==
    {i \in DOMAIN sessions : b = "all" \/ sessions[i].batch = b}

\* loadSessions, answered with `rows` unless it faults.
DashLoadSessions(s, fault, rows) ==
    IF fault THEN [s EXCEPT !.loading = FALSE]
    ELSE [s EXCEPT !.sessions = rows, !.loading = FALSE,
                   !.selectedDate = IF Len(rows) > 0 /\ s.selectedDate = -1
                                    THEN rows[1].session_date
                                    ELSE s.selectedDate]

\* The attendance_records of a session, in marked_at order.
RecordsOf(sessionId) ==
    LET i == CHOOSE i \in DOMAIN sessions : sessions[i].id = sessionId
    IN  [k \in DOMAIN sessions[i].marked |->
            [student_name |-> sessions[i].marked[k], status |-> "present"]]

\* sessions.find(s => s.session_date === selectedDate) over the list and the
\* date a call of loadDailyStats closes over.
DashFindSession(list, date) ==
    IF \E i \in DOMAIN list : list[i].session_date = date
    THEN list[CHOOSE i \in DOMAIN list :
                 /\ list[i].session_date = date
                 /\ \A j \in 1..(i - 1) : list[j].session_date # date]
    ELSE NoSession

\* The attendance_records query of a loadDailyStats call made for `date` and
\* `session` resolves: setStats, or the catch block, then the finally block.
DashRecordsArrive(s, date, session, fault) ==
    LET records == RecordsOf(session.id)
    IN  IF fault THEN [s EXCEPT !.stats = NoStats, !.refreshing = FALSE]
        ELSE [s EXCEPT !.refreshing = FALSE,
                       !.stats =
                          [date |-> date,
                           batchName |-> IF session.batch = None
                                         THEN DefaultBatch ELSE session.batch,
                           total_present |-> Len(records),
                           attendance_percentage |-> Percentage(Len(records)),
                           records |-> records]]

\* loadDailyStats over the session list `list` the call closes over, answered
\* before anything else happens.
DashLoadDailyStats(s, list, fault) ==
    IF DashFindSession(list, s.selectedDate) = NoSession
    THEN [s EXCEPT !.stats = NoStats, !.refreshing = FALSE]
    ELSE DashRecordsArrive(s, s.selectedDate,
                           DashFindSession(list, s.selectedDate), fault)

\* loadDailyStats up to its await: without a session of the date it ends at
\* once, otherwise the call stays in flight with the date and the session it
\* found.  The calls in flight are kept in the order they were made; late
\* tells that a call made after this one has already ended.
DashBeginDailyStats(s, list) ==
    IF DashFindSession(list, s.selectedDate) = NoSession
    THEN [s EXCEPT !.stats = NoStats, !.refreshing = FALSE]
    ELSE [s EXCEPT !.refreshing = TRUE,
                   !.requests = Append(@,
                       [date |-> s.selectedDate,
                        session |-> DashFindSession(list, s.selectedDate),
                        late |-> FALSE])]

\* The call at place k ends; the calls in flight stay as they are.
DashRetire(reqs, k) ==
    [i \in 1..(Len(reqs) - 1) |->
        IF i < k THEN [reqs[i] EXCEPT !.late = TRUE] ELSE reqs[i + 1]]

\* A response that is dropped when a call made later has already ended.
DashSettleUnlessLate(s, req, fault) ==
    IF req.late \/ ~s.mounted THEN s
    ELSE DashRecordsArrive(s, req.date, req.session, fault)

\* The response of the call req is applied to the mounted component.
DashSettle(s, req, fault) ==
    IF ~s.mounted THEN s
    ELSE DashRecordsArrive(s, req.date, req.session, fault)

\* The dashboard mounts with its calendar: loadBatches, loadSessions (once per
\* effect), loadDailyStats over the empty first-render list, loadMonthAttendance.
DashMount(fBatches, fSessions, fCalSessions, fCalRecords) ==
    /\ \E o \in DateDescOrders(sessions, DOMAIN sessions) :
          dash' = DashLoadSessions(
                     DashLoadDailyStats(
                        [InitDash(Today) EXCEPT !.mounted = TRUE, !.batches =
                            IF fBatches THEN <<>>
                            ELSE [i \in DOMAIN BackendActiveBatches |->
                                     [id |-> BackendActiveBatches[i].id,
                                      name |-> BackendActiveBatches[i].name]]],
                        <<>>, FALSE),
                     fSessions,
                     Rows([i \in DOMAIN sessions |-> AttendanceSession(sessions[i])], o))
    /\ \E o \in Orderings(MonthRows(LocalMonth)) :
          cal' = loadMonthAttendance(InitCal(LocalMonth), o, fCalSessions, fCalRecords)
    /\ hist' = Step("loadMonthAttendance",
                    IF fCalSessions \/ (fCalRecords /\ MonthRows(LocalMonth) # {})
                    THEN "error" ELSE "ok",
                    fBatches \/ fSessions \/ fCalSessions \/ fCalRecords)
    /\ UNCHANGED <<now, batches, linkVars, tz, sessions, asm, csv, adminVars>>

\* sessions.find(s => s.session_date === selectedDate)
currentSession ==
    IF \E i \in DOMAIN dash.sessions : dash.sessions[i].session_date = dash.selectedDate
    THEN dash.sessions[CHOOSE i \in DOMAIN dash.sessions :
                          /\ dash.sessions[i].session_date = dash.selectedDate
                          /\ \A j \in 1..(i - 1) :
                                dash.sessions[j].session_date # dash.selectedDate]
    ELSE NoSession

\* The batch filter changes: setSelectedBatchId and the effect's loadSessions.
DashSelectBatch(b, fault) ==
    /\ dash.mounted /\ ~dash.loading
    /\ b \in {"all"} \cup {dash.batches[i].id : i \in DOMAIN dash.batches}
    /\ b # dash.selectedBatchId
    /\ \E o \in DateDescOrders(sessions, DashRows(b)) :
          dash' = DashLoadSessions([dash EXCEPT !.selectedBatchId = b], fault,
                     Rows([i \in DOMAIN sessions |-> AttendanceSession(sessions[i])], o))
    /\ hist' = Step("dash.loadSessions", IF fault THEN "error" ELSE "ok", fault)
    /\ UNCHANGED <<now, batches, linkVars, tz, sessions, asm, cal, csv, adminVars>>

\* The Refresh button: loadDailyStats.
DashRefresh(fault) ==
    /\ dash.mounted /\ ~dash.loading
    /\ dash' = DashLoadDailyStats(dash, dash.sessions, fault)
    /\ hist' = Step("dash.refresh", IF fault THEN "error" ELSE "ok", fault)
    /\ UNCHANGED <<now, batches, linkVars, tz, sessions, asm, cal, csv, adminVars>>

\* The Refresh button, enabled unless refreshing: loadDailyStats is called.
DashRefreshStart ==
    /\ dash.mounted /\ ~dash.loading /\ ~dash.refreshing
    /\ Len(dash.requests) < MaxReq
    /\ dash' = DashBeginDailyStats(dash, dash.sessions)
    /\ hist' = Step("dash.refresh", "ok", FALSE)
    /\ UNCHANGED <<now, batches, linkVars, tz, sessions, asm, cal, csv, adminVars>>

\* An armed 30 s interval fires: the loadDailyStats its effect run closed
\* over is called.
DashTimerStart ==
    /\ dash.timers # {}
    /\ Len(dash.requests) < MaxReq
    /\ dash' = DashBeginDailyStats(dash, dash.timerSessions)
    /\ hist' = Step("dash.timer", "ok", FALSE)
    /\ UNCHANGED <<now, batches, linkVars, tz, sessions, asm, cal, csv, adminVars>>

\* The attendance_records query of the call at place k resolves.
DashArrive(k, fault) ==
    /\ k \in DOMAIN dash.requests
    /\ dash' = [DashSettle(dash, dash.requests[k], fault)
                EXCEPT !.requests = DashRetire(dash.requests, k)]
    /\ hist' = Step(IF dash.requests[k].late THEN "dash.late" ELSE "dash.arrived",
                    IF fault THEN "error" ELSE "ok", fault)
    /\ UNCHANGED <<now, batches, linkVars, tz, sessions, asm, cal, csv, adminVars>>

\* The auto-refresh checkbox: setAutoRefresh and the interval effect.
DashToggleAutoRefresh ==
    /\ dash.mounted /\ ~dash.loading
    /\ dash' = DashIntervalEffect([dash EXCEPT !.autoRefresh = ~dash.autoRefresh], dash)
    /\ hist' = Other
    /\ UNCHANGED <<now, batches, linkVars, tz, sessions, asm, cal, csv, adminVars>>

\* An armed 30 s interval fires: the loadDailyStats its effect run closed over.
DashTimerRefresh(fault) ==
    /\ dash.timers # {}
    /\ dash' = DashLoadDailyStats(dash, dash.timerSessions, fault)
    /\ hist' = Step("dash.timer", IF fault THEN "error" ELSE "ok", fault)
    /\ UNCHANGED <<now, batches, linkVars, tz, sessions, asm, cal, csv, adminVars>>

\* The tab is left: the dashboard unmounts and its effect cleanups run.
DashUnmount ==
    /\ dash.mounted
    /\ dash' = ClearInterval([dash EXCEPT !.mounted = FALSE])
    /\ hist' = Other
    /\ UNCHANGED <<now, batches, linkVars, tz, sessions, asm, cal, csv, adminVars>>

\* A day of the calendar is clicked: onDateSelect(dateKey), then the effect
\* on selectedDate.
DashSelectDate(d, fault) ==
    /\ dash.mounted /\ ~dash.loading /\ ~cal.loading
    /\ d \in MonthDays(cal.currentMonth) \cap AllDates
    /\ cal.attendanceData[d] # NoDay
    /\ d # dash.selectedDate
    /\ dash' = DashLoadDailyStats(
                   DashIntervalEffect([dash EXCEPT !.selectedDate = d], dash),
                   dash.sessions, fault)
    /\ hist' = Step("dash.selectDate", IF fault THEN "error" ELSE "ok", fault)
    /\ UNCHANGED <<now, batches, linkVars, tz, sessions, asm, cal, csv, adminVars>>

\* A day of the calendar is clicked and the loadDailyStats of the effect on
\* selectedDate is called.
DashSelectDateStart(d) ==
    /\ dash.mounted /\ ~dash.loading /\ ~cal.loading
    /\ d \in MonthDays(cal.currentMonth) \cap AllDates
    /\ cal.attendanceData[d] # NoDay
    /\ d # dash.selectedDate
    /\ Len(dash.requests) < MaxReq
    /\ dash' = DashBeginDailyStats(
                   DashIntervalEffect([dash EXCEPT !.selectedDate = d], dash),
                   dash.sessions)
    /\ hist' = Step("dash.selectDate", "ok", FALSE)
    /\ UNCHANGED <<now, batches, linkVars, tz, sessions, asm, cal, csv, adminVars>>

\* ------------------------------------------------- tables: filter, sort, export
\* The sort order with sortOrder disregarded.
StatCompareAscending(a, b, sortBy, sortOrder) ==
    IF sortBy = "name" THEN localeCompare(a.student_name, b.student_name)
    ELSE IF sortBy = "percentage"
    THEN a.attendance_percentage - b.attendance_percentage
    ELSE IF sortBy = "present" THEN a.sessions_present - b.sessions_present
    ELSE 0

\* The comparator of sortedStats.
StatCompare(a, b, sortBy, sortOrder) ==
    LET comparison ==
            IF sortBy = "name" THEN localeCompare(a.student_name, b.student_name)
            ELSE IF sortBy = "percentage"
            THEN a.attendance_percentage - b.attendance_percentage
            ELSE IF sortBy = "present" THEN a.sessions_present - b.sessions_present
            ELSE 0
    IN  IF sortOrder = "asc" THEN comparison ELSE 0 - comparison

\* rows.filter(r => r.student_name.toLowerCase().includes(filter.toLowerCase()))
FilterByName(rows, filter) ==
    SeqFilter(rows, {r \in Range(rows) :
                        includes(toLowerCase(r.student_name), toLowerCase(filter))})

\* [...filteredStats].sort(comparator)
SortedStats(stats, filter, sortBy, sortOrder) ==
    LET rows == FilterByName(stats, filter)
    IN  Sort(rows, [p \in Range(rows) \X Range(rows) |->
                       StatCompare(p[1], p[2], sortBy, sortOrder)])

\* handleSort(column) on the component state s.
HandleSort(s, column) ==
    IF s.sortBy = column
    THEN [s EXCEPT !.sortOrder = IF s.sortOrder = "asc" THEN "desc" ELSE "asc"]
    ELSE [s EXCEPT !.sortBy = column, !.sortOrder = "desc"]

\* The data rows exportToCSV of the statistics views writes.
StatsCsvRows(stats) ==
    [i \in DOMAIN stats |->
        [student_name |-> stats[i].student_name,
         total_sessions |-> stats[i].total_sessions,
         sessions_present |-> stats[i].sessions_present,
         attendance_percentage |-> stats[i].attendance_percentage]]

BasSortedStats == SortedStats(bas.studentStats, bas.searchFilter, bas.sortBy, bas.sortOrder)
PubSortedStats == SortedStats(pub.studentStats, pub.searchFilter, pub.sortBy, pub.sortOrder)
filteredRecords == FilterByName(dash.stats.records, dash.searchFilter)

BasTableShown == BasRendered /\ ~bas.loading /\ bas.batchOverview # NoOverview

BasSetSearchFilter(f) ==
    /\ BasTableShown
    /\ f # bas.searchFilter
    /\ bas' = [bas EXCEPT !.searchFilter = f]
    /\ hist' = Other
    /\ UNCHANGED <<now, batches, urls, pub, pubReq, attendVars, csv, adminVars>>

BasHandleSort(column) ==
    /\ BasTableShown
    /\ bas' = HandleSort(bas, column)
    /\ hist' = Step("bas.handleSort", column, FALSE)
    /\ UNCHANGED <<now, batches, urls, pub, pubReq, attendVars, csv, adminVars>>

BasExportToCSV ==
    /\ BasTableShown
    /\ IF Len(bas.studentStats) = 0
       THEN /\ UNCHANGED csv
            /\ hist' = Step("bas.exportToCSV", "none", FALSE)
       ELSE /\ csv' = StatsCsvRows(bas.studentStats)
            /\ hist' = Step("bas.exportToCSV", "ok", FALSE)
    /\ UNCHANGED <<now, batches, linkVars, attendVars, adminVars>>

PubSetSearchFilter(f) ==
    /\ PubShowsStats
    /\ f # pub.searchFilter
    /\ pub' = [pub EXCEPT !.searchFilter = f]
    /\ hist' = Other
    /\ UNCHANGED <<now, batches, urls, bas, pubReq, attendVars, csv, adminVars>>

PubHandleSort(column) ==
    /\ PubShowsStats
    /\ pub' = HandleSort(pub, column)
    /\ hist' = Step("pub.handleSort", column, FALSE)
    /\ UNCHANGED <<now, batches, urls, bas, pubReq, attendVars, csv, adminVars>>

PubExportToCSV ==
    /\ PubShowsStats
    /\ IF pub.batchOverview = NoOverview \/ Len(pub.studentStats) = 0
       THEN /\ UNCHANGED csv
            /\ hist' = Step("pub.exportToCSV", "none", FALSE)
       ELSE /\ csv' = StatsCsvRows(pub.studentStats)
            /\ hist' = Step("pub.exportToCSV", "ok", FALSE)
    /\ UNCHANGED <<now, batches, linkVars, attendVars, adminVars>>

DashSetSearchFilter(f) ==
    /\ ~dash.loading /\ dash.stats # NoStats
    /\ f # dash.searchFilter
    /\ dash' = [dash EXCEPT !.searchFilter = f]
    /\ hist' = Other
    /\ UNCHANGED <<now, batches, linkVars, tz, sessions, asm, cal, csv, adminVars>>

DashExportToCSV ==
    /\ ~dash.loading /\ dash.stats # NoStats
    /\ IF Len(dash.stats.records) = 0
       THEN /\ UNCHANGED csv
            /\ hist' = Step("dash.exportToCSV", "none", FALSE)
       ELSE /\ csv' = [i \in DOMAIN dash.stats.records |->
                         [date |-> dash.selectedDate,
                          student_name |-> dash.stats.records[i].student_name,
                          status |-> dash.stats.records[i].status]]
            /\ hist' = Step("dash.exportToCSV", "ok", FALSE)
    /\ UNCHANGED <<now, batches, linkVars, attendVars, adminVars>>

\* -------------------------------------------------------- BatchManagement
MsgBatchesFailed == "Failed to load batches"
MsgBatchNameMissing == "Please enter a batch name"
MsgBatchCreated == "Batch created successfully!"
MsgBatchCreateFailed == "Failed to create batch"
MsgStudentNameMissing == "Please enter student name"
MsgNoBatchSelected == "Please select a batch first"
MsgStudentExists == "Student already exists in this batch"
MsgStudentAdded == "Student added successfully!"
MsgStudentAddFailed == "Failed to add student"
MsgStudentRemoved == "Student removed successfully!"
MsgStudentRemoveFailed == "Failed to remove student"
MsgBatchDeleted == "Batch deleted successfully!"
MsgBatchDeleteFailed == "Failed to delete batch"

InitBm ==
    [batches |-> <<>>, selectedBatch |-> None, students |-> <<>>,
     loading |-> TRUE, showBatchForm |-> FALSE, showStudentForm |-> FALSE,
     batchName |-> <<>>, studentName |-> <<>>, message |-> NoMessage]

Error(text) == [type |-> "error", text |-> text]
Success(text) == [type |-> "success", text |-> text]

\* A trim that removes nothing.
trimNothing(str) == str

RECURSIVE trimStart(_)
trimStart(str) ==
    IF str # <<>> /\ Head(str) = " " THEN trimStart(Tail(str)) ELSE str

\* String.prototype.trim
trim(str) == Reverse(trimStart(Reverse(trimStart(str))))

\* batches rows ORDER BY created_at descending: the latest insert first.
BatchesNewestFirst(table) == Reverse(table)

\* batch_students rows of a batch ORDER BY student_name ascending.
ByStudentName(x, y) == localeCompare(x.student_name, y.student_name)
StudentsOf(table, b) ==
    LET rows == SeqFilter(table, {r \in Range(table) : r.batch_id = b})
    IN  Sort(rows, [p \in Range(rows) \X Range(rows) |-> ByStudentName(p[1], p[2])])

\* loadBatches within a render whose selectedBatch was `closed`.
BmLoadBatches(s, closed, fault, table) ==
    IF fault
    THEN [s EXCEPT !.message = Error(MsgBatchesFailed), !.loading = FALSE]
    ELSE LET data == BatchesNewestFirst(table)
         IN  [s EXCEPT !.batches = data, !.loading = FALSE,
                       !.selectedBatch = IF Len(data) > 0 /\ closed = None
                                         THEN data[1].id ELSE s.selectedBatch]

\* loadStudents for the selection of s.
BmLoadStudents(s, fault, table) ==
    IF s.selectedBatch = None \/ fault THEN s
    ELSE [s EXCEPT !.students = StudentsOf(table, s.selectedBatch)]

\* The effect on selectedBatch: loadStudents when the selection changed.
BmSelectionEffect(s, before, fault, table) ==
    IF s.selectedBatch # before THEN BmLoadStudents(s, fault, table) ELSE s

BmFrame == UNCHANGED <<now, linkVars, attendVars, csv, users, um, rls,
                       boardVars, app>>

BmMount(fBatches, fStudents) ==
    /\ bm' = BmSelectionEffect(BmLoadBatches(InitBm, None, fBatches, batches),
                               None, fStudents, students)
    /\ hist' = Step("bm.loadBatches", IF fBatches THEN "error" ELSE "ok", fBatches)
    /\ UNCHANGED <<batches, students>>
    /\ BmFrame

BmSelectBatch(b, fStudents) ==
    /\ ~bm.loading
    /\ \E i \in DOMAIN bm.batches : bm.batches[i].id = b
    /\ b # bm.selectedBatch
    /\ bm' = BmLoadStudents([bm EXCEPT !.selectedBatch = b], fStudents, students)
    /\ hist' = Step("bm.loadStudents", IF fStudents THEN "error" ELSE "ok", fStudents)
    /\ UNCHANGED <<batches, students>>
    /\ BmFrame

\* The batch form: opened, typed into, cancelled.
BmEditBatchForm(open, name) ==
    /\ ~bm.loading
    /\ IF open THEN bm.showBatchForm \/ name = bm.batchName ELSE name = <<>>
    /\ bm' = [bm EXCEPT !.showBatchForm = open, !.batchName = name]
    /\ bm' # bm
    /\ hist' = Other
    /\ UNCHANGED <<batches, students>>
    /\ BmFrame

currentBatch ==
    \E i \in DOMAIN bm.batches : bm.batches[i].id = bm.selectedBatch

\* The student form: opened, typed into, cancelled.
BmEditStudentForm(open, name) ==
    /\ ~bm.loading /\ currentBatch
    /\ IF open THEN bm.showStudentForm \/ name = bm.studentName ELSE name = <<>>
    /\ bm' = [bm EXCEPT !.showStudentForm = open, !.studentName = name]
    /\ bm' # bm
    /\ hist' = Other
    /\ UNCHANGED <<batches, students>>
    /\ BmFrame

createBatch(fInsert, fLoad, fStudents) ==
    /\ ~bm.loading /\ bm.showBatchForm
    /\ IF trim(bm.batchName) = <<>>
       THEN /\ bm' = [bm EXCEPT !.message = Error(MsgBatchNameMissing)]
            /\ hist' = Step("createBatch", "invalid", FALSE)
            /\ UNCHANGED batches
       ELSE IF fInsert
       THEN /\ bm' = [bm EXCEPT !.message = Error(MsgBatchCreateFailed)]
            /\ hist' = Step("createBatch", "error", TRUE)
            /\ UNCHANGED batches
       ELSE /\ \E id \in BatchIds :
                 /\ \A i \in DOMAIN batches : batches[i].id # id
                 /\ batches' = Append(batches,
                                      [id |-> id, name |-> trim(bm.batchName),
                                       is_active |-> TRUE])
                 /\ bm' = BmSelectionEffect(
                             [BmLoadBatches(
                                 [bm EXCEPT !.message = Success(MsgBatchCreated),
                                            !.showBatchForm = FALSE,
                                            !.batchName = <<>>],
                                 bm.selectedBatch, fLoad, batches')
                              EXCEPT !.selectedBatch = id],
                             bm.selectedBatch, fStudents, students)
            /\ hist' = Step("createBatch", "ok", FALSE)
    /\ UNCHANGED students
    /\ BmFrame

AddStudentMessageGeneric(code) == Error(MsgStudentAddFailed)

\* The message of addStudent for the error code of the insert.
AddStudentMessage(code) ==
    Error(IF code = "23505" THEN MsgStudentExists ELSE MsgStudentAddFailed)

addStudent(fInsert, fLoad) ==
    /\ ~bm.loading /\ currentBatch /\ bm.showStudentForm
    /\ LET name == trim(bm.studentName)
           code == IF fInsert THEN "other"
                   ELSE IF \E i \in DOMAIN students :
                              /\ students[i].batch_id = bm.selectedBatch
                              /\ students[i].student_name = name
                   THEN "23505" ELSE "none"
       IN  IF name = <<>>
           THEN /\ bm' = [bm EXCEPT !.message = Error(MsgStudentNameMissing)]
                /\ hist' = Step("addStudent", "invalid", FALSE)
                /\ UNCHANGED students
           ELSE IF bm.selectedBatch = None
           THEN /\ bm' = [bm EXCEPT !.message = Error(MsgNoBatchSelected)]
                /\ hist' = Step("addStudent", "invalid", FALSE)
                /\ UNCHANGED students
           ELSE IF code # "none"
           THEN /\ bm' = [bm EXCEPT !.message = AddStudentMessage(code)]
                /\ hist' = Step("addStudent", "error", fInsert)
                /\ UNCHANGED students
           ELSE /\ Len(students) < MaxStudentRows
                /\ students' = Append(students,
                                      [id |-> FreshId({students[i].id : i \in DOMAIN students}),
                                       batch_id |-> bm.selectedBatch,
                                       student_name |-> name])
                /\ bm' = BmLoadStudents(
                            [bm EXCEPT !.message = Success(MsgStudentAdded),
                                       !.showStudentForm = FALSE,
                                       !.studentName = <<>>],
                            fLoad, students')
                /\ hist' = Step("addStudent", "ok", FALSE)
    /\ UNCHANGED batches
    /\ BmFrame

deleteStudent(studentId, confirmed, fDelete, fLoad) ==
    /\ ~bm.loading /\ currentBatch
    /\ \E i \in DOMAIN bm.students : bm.students[i].id = studentId
    /\ IF ~confirmed
       THEN /\ UNCHANGED <<bm, students>>
            /\ hist' = Step("deleteStudent", "cancelled", FALSE)
       ELSE IF fDelete
       THEN /\ bm' = [bm EXCEPT !.message = Error(MsgStudentRemoveFailed)]
            /\ hist' = Step("deleteStudent", "error", TRUE)
            /\ UNCHANGED students
       ELSE /\ students' = SeqFilter(students,
                                     {r \in Range(students) : r.id # studentId})
            /\ bm' = BmLoadStudents([bm EXCEPT !.message = Success(MsgStudentRemoved)],
                                    fLoad, students')
            /\ hist' = Step("deleteStudent", "ok", FALSE)
    /\ UNCHANGED batches
    /\ BmFrame

\* deleteBatch; the backend removes the students and links of the batch with it.
deleteBatch(batchId, confirmed, fDelete, fLoad) ==
    /\ ~bm.loading
    /\ \E i \in DOMAIN bm.batches : bm.batches[i].id = batchId
    /\ IF ~confirmed
       THEN /\ UNCHANGED <<bm, batches, students, urls>>
            /\ hist' = Step("deleteBatch", "cancelled", FALSE)
       ELSE IF fDelete
       THEN /\ bm' = [bm EXCEPT !.message = Error(MsgBatchDeleteFailed)]
            /\ hist' = Step("deleteBatch", "error", TRUE)
            /\ UNCHANGED <<batches, students, urls>>
       ELSE /\ batches' = SeqFilter(batches, {r \in Range(batches) : r.id # batchId})
            /\ students' = SeqFilter(students,
                                     {r \in Range(students) : r.batch_id # batchId})
            /\ urls' = SeqFilter(urls, {r \in Range(urls) : r.batch_id # batchId})
            /\ bm' = BmLoadBatches([bm EXCEPT !.message = Success(MsgBatchDeleted),
                                              !.selectedBatch = None],
                                   bm.selectedBatch, fLoad, batches')
            /\ hist' = Step("deleteBatch", "ok", FALSE)
    /\ UNCHANGED <<now, bas, pub, pubReq, attendVars, csv, users, um, rls,
                   boardVars, app>>

\* --------------------------------------------------------- UserManagement
MsgOwnAccount == "You cannot delete your own account"
MsgUserDeleteFailed == "Failed to delete user"
MsgUserDeleted == "User deleted successfully!"

\* The id of the signed-in admin.
AdminId == 1

MsgFillRequired == "Please fill in all required fields"
MsgUserCreateFailed == "Failed to create user"
MsgAdminRecordFailed == "Failed to create admin record"
MsgUserCreated == "User created successfully!"

\* useState({ email: '', password: '', name: '', role: 'viewer' })
EmptyUserForm == [email |-> <<>>, password |-> <<>>, name |-> <<>>]

InitUm ==
    [users |-> <<>>, loading |-> TRUE, showDeleteConfirm |-> FALSE,
     userToDelete |-> 0, notification |-> NoMessage, showAddModal |-> FALSE,
     newUser |-> EmptyUserForm, creating |-> FALSE, call |-> "none"]

UmFrame == UNCHANGED <<now, batches, linkVars, attendVars, csv, students, bm, rls,
                       boardVars, app>>

\* loadUsers: admins rows ORDER BY created_at descending.
UmMount(fault) ==
    /\ um' = IF fault THEN [InitUm EXCEPT !.loading = FALSE]
             ELSE [InitUm EXCEPT !.users = Reverse(users), !.loading = FALSE]
    /\ hist' = Step("um.loadUsers", IF fault THEN "error" ELSE "ok", fault)
    /\ UNCHANGED users
    /\ UmFrame

confirmDeleteUserOfAnyRow(userId) ==
    /\ ~um.loading /\ ~um.showDeleteConfirm
    /\ \E i \in DOMAIN um.users : um.users[i].id = userId
    /\ um' = [um EXCEPT !.userToDelete = userId, !.showDeleteConfirm = TRUE]
    /\ hist' = Step("confirmDeleteUser", "ok", FALSE)
    /\ UNCHANGED users
    /\ UmFrame

confirmDeleteUser(userId) ==
    /\ ~um.loading /\ ~um.showDeleteConfirm
    /\ \E i \in DOMAIN um.users : um.users[i].id = userId
    /\ um' = IF userId = AdminId
             THEN [um EXCEPT !.notification = Error(MsgOwnAccount)]
             ELSE [um EXCEPT !.userToDelete = userId, !.showDeleteConfirm = TRUE]
    /\ hist' = Step("confirmDeleteUser",
                    IF userId = AdminId THEN "refused" ELSE "ok", FALSE)
    /\ UNCHANGED users
    /\ UmFrame

\* onCancel of the confirm dialog.
UmCancelDelete ==
    /\ um.showDeleteConfirm
    /\ um' = [um EXCEPT !.showDeleteConfirm = FALSE, !.userToDelete = 0]
    /\ hist' = Other
    /\ UNCHANGED users
    /\ UmFrame

\* onConfirm of the confirm dialog.
deleteUser(fault) ==
    /\ um.showDeleteConfirm
    /\ IF um.userToDelete = 0
       THEN /\ UNCHANGED <<um, users>>
            /\ hist' = Step("deleteUser", "none", FALSE)
       ELSE IF fault
       THEN /\ um' = [um EXCEPT !.notification = Error(MsgUserDeleteFailed),
                                !.showDeleteConfirm = FALSE,
                                !.userToDelete = 0]
            /\ hist' = Step("deleteUser", "error", TRUE)
            /\ UNCHANGED users
       ELSE /\ users' = SeqFilter(users, {r \in Range(users) : r.id # um.userToDelete})
            /\ um' = [um EXCEPT
                        !.users = SeqFilter(um.users,
                                            {r \in Range(um.users) :
                                                r.id # um.userToDelete}),
                        !.notification = Success(MsgUserDeleted),
                        !.showDeleteConfirm = FALSE,
                        !.userToDelete = 0]
            /\ hist' = Step("deleteUser", "ok", FALSE)
    /\ UmFrame

\* The Add User modal: opened, closed, typed into.
UmShowAddModal(open) ==
    /\ ~um.loading /\ um.showAddModal # open
    /\ um' = [um EXCEPT !.showAddModal = open]
    /\ hist' = Other
    /\ UNCHANGED users
    /\ UmFrame

UmEditNewUser(field, text) ==
    /\ ~um.loading /\ um.showAddModal
    /\ um.newUser[field] # text
    /\ um' = [um EXCEPT !.newUser[field] = text]
    /\ hist' = Other
    /\ UNCHANGED users
    /\ UmFrame

\* The test createUser makes before any backend call.
UserFormIncomplete(form) ==
    trim(form.email) = <<>> \/ trim(form.password) = <<>> \/ trim(form.name) = <<>>

\* createUser up to supabase.auth.signUp.
UmCreateUserStart ==
    /\ ~um.loading /\ um.showAddModal /\ ~um.creating
    /\ Len(users) < MaxUsers
    /\ IF UserFormIncomplete(um.newUser)
       THEN /\ um' = [um EXCEPT !.notification = Error(MsgFillRequired)]
            /\ hist' = Step("createUser", "invalid", FALSE)
       ELSE /\ um' = [um EXCEPT !.creating = TRUE, !.call = "signUp"]
            /\ hist' = Step("createUser", "sent", FALSE)
    /\ UNCHANGED users
    /\ UmFrame

\* A createUser that leaves the flag set when signUp fails.
UmSignUpAnswerKeepingFlag(s, fault, hasUser) ==
    IF fault THEN [s EXCEPT !.notification = Error(MsgUserCreateFailed),
                            !.call = "none"]
    ELSE IF hasUser THEN [s EXCEPT !.call = "insert"]
    ELSE [s EXCEPT !.creating = FALSE, !.call = "none"]

\* signUp resolves: with an error, with a user, or with neither.
UmSignUpAnswer(s, fault, hasUser) ==
    IF fault THEN [s EXCEPT !.notification = Error(MsgUserCreateFailed),
                            !.creating = FALSE, !.call = "none"]
    ELSE IF hasUser THEN [s EXCEPT !.call = "insert"]
    ELSE [s EXCEPT !.creating = FALSE, !.call = "none"]

UmSignUpArrive(fault, hasUser) ==
    /\ um.call = "signUp"
    /\ um' = UmSignUpAnswer(um, fault, hasUser)
    /\ hist' = Step("createUser.signUp", IF fault THEN "error" ELSE "ok", fault)
    /\ UNCHANGED users
    /\ UmFrame

\* The insert into admins resolves; on success loadUsers is called.
UmInsertArrive(fault) ==
    /\ um.call = "insert"
    /\ IF fault
       THEN /\ um' = [um EXCEPT !.notification = Error(MsgAdminRecordFailed),
                                !.creating = FALSE, !.call = "none"]
            /\ UNCHANGED users
       ELSE /\ users' = Append(users, [id |-> FreshId({users[i].id : i \in DOMAIN users})])
            /\ um' = [um EXCEPT !.loading = TRUE, !.call = "reload"]
    /\ hist' = Step("createUser.insert", IF fault THEN "error" ELSE "ok", fault)
    /\ UmFrame

\* The loadUsers of createUser resolves, and createUser runs to its end.
UmReloadArrive(fault) ==
    /\ um.call = "reload"
    /\ um' = [um EXCEPT !.users = IF fault THEN @ ELSE Reverse(users),
                        !.loading = FALSE,
                        !.showAddModal = FALSE,
                        !.newUser = EmptyUserForm,
                        !.notification = Success(MsgUserCreated),
                        !.creating = FALSE,
                        !.call = "none"]
    /\ hist' = Step("createUser.reload", IF fault THEN "error" ELSE "ok", fault)
    /\ UNCHANGED users
    /\ UmFrame

\* ------------------------------------------- INSERT policies on batches
\* Row-level security of table batches, FOR INSERT TO authenticated.  The
\* policies are permissive: a row is accepted when one policy in force
\* accepts it.

Roles == {"admin", "editor", "viewer"}

PolicyCreatedBy == "Admins can create batches"
PolicyRoleFunction == "Admins and Editors can insert batches"
PolicySimplified == "Authenticated admins can insert batches"
PolicyAllAdmins == "Allow authenticated admins to insert batches"
PolicyAdminsAndEditors == "Admins and Editors can create batches"

LegacyPolicies == {PolicyCreatedBy, PolicyRoleFunction}

\* WITH CHECK of a policy, for a signed-in user whose admins row has this
\* role and who sends the row createBatch sends (created_by: admin?.id).
PolicyAccepts(policy, role) ==
    CASE policy = PolicyCreatedBy -> TRUE
      [] policy = PolicyRoleFunction -> role \in {"admin", "editor"}
      [] policy = PolicySimplified -> role \in {"admin", "editor"}
      [] policy = PolicyAllAdmins -> role \in Roles
      [] policy = PolicyAdminsAndEditors -> role \in {"admin", "editor"}

CanInsert(policies, role) == \E p \in policies : PolicyAccepts(p, role)

\* "Fix Batches Table INSERT Policy"
FixBatchesTableInsertPolicy(policies) == policies \ {PolicyCreatedBy}

\* "Simplify Batches INSERT Policy"
SimplifyBatchesInsertPolicy(policies) ==
    (policies \ {PolicyRoleFunction}) \cup {PolicySimplified}

\* "Fix Batches INSERT - Grant to All Admins"
GrantToAllAdmins(policies) ==
    (policies \ {PolicySimplified}) \cup {PolicyAllAdmins}

\* "Fix Batches Insert Policy" with its DROP POLICY left out.
FixBatchesInsertPolicyKeeping(policies) ==
    policies \cup {PolicyAdminsAndEditors}

\* "Fix Batches Insert Policy"
FixBatchesInsertPolicy(policies) ==
    (policies \ {PolicyAllAdmins}) \cup {PolicyAdminsAndEditors}

Migrations == {"fix_table", "simplify", "grant_all", "fix_insert"}

\* "Fix Batches Insert Policy" drops the policy "Grant to All Admins"
\* creates and so is applied after it; the others are applied in any order.
MigrationsBefore(m) == IF m = "fix_insert" THEN {"grant_all"} ELSE {}

MigrationEffect(m, policies) ==
    CASE m = "fix_table" -> FixBatchesTableInsertPolicy(policies)
      [] m = "simplify" -> SimplifyBatchesInsertPolicy(policies)
      [] m = "grant_all" -> GrantToAllAdmins(policies)
      [] m = "fix_insert" -> FixBatchesInsertPolicy(policies)

InitRls(policies) ==
    [policies |-> policies, applied |-> {}, role |-> "admin",
     inserted |-> {}]

\* The table once every migration has run.
DeployedRls ==
    [InitRls(FixBatchesInsertPolicy(GrantToAllAdmins(
        SimplifyBatchesInsertPolicy(
            FixBatchesTableInsertPolicy(LegacyPolicies)))))
     EXCEPT !.applied = Migrations]

RlsFrame == UNCHANGED <<now, batches, linkVars, attendVars, csv,
                        students, users, bm, um, boardVars, app>>

ApplyMigration(m) ==
    /\ m \notin rls.applied
    /\ MigrationsBefore(m) \subseteq rls.applied
    /\ rls' = [rls EXCEPT !.policies = MigrationEffect(m, @),
                          !.applied = @ \cup {m}]
    /\ hist' = Step("migration", "ok", FALSE)
    /\ RlsFrame

\* An INSERT into batches by a signed-in user of this role.
InsertBatch(role) ==
    /\ rls' = [rls EXCEPT !.role = role,
                          !.inserted = IF CanInsert(rls.policies, role)
                                       THEN @ \cup {role} ELSE @]
    /\ hist' = Step("insertBatch",
                    IF CanInsert(rls.policies, role) THEN "ok" ELSE "denied",
                    FALSE)
    /\ RlsFrame


\* ------------------------------------------------ ActivenessBoardSelector
MsgBoardsFailed == "Failed to load activeness boards"

\* The double n / d, kept as the fraction it is the value of.
Quotient(n, d) == [num |-> n, den |-> d]
\* The number 0 as a fraction.
Zero == Quotient(0, 1)
SameNumber(x, y) == x.num * y.den = y.num * x.den

\* Array.prototype.reduce((sum, x) => sum + x, 0)
ReduceSum(values) ==
    LET acc[i \in 0..Len(values)] ==
            IF i = 0 THEN 0 ELSE acc[i - 1] + values[i]
    IN  acc[Len(values)]

\* Math.max(...values) of a list that is not empty.
MathMax(values) ==
    LET acc[i \in 1..Len(values)] ==
            IF i = 1 THEN values[1]
            ELSE IF values[i] > acc[i - 1] THEN values[i] ELSE acc[i - 1]
    IN  acc[Len(values)]

\* new Set(values).size
SetSize(values) == Cardinality(Range(values))

\* activeness_boards rows ORDER BY created_at descending.
BackendBoards == << [id |-> "k1", public_id |-> "p1"] >>

NoAbsStats == [avg |-> Zero, highest |-> 0, total |-> 0, totalModules |-> 0]

calculateStatsCountingRows(scores) ==
    IF Len(scores) = 0 THEN NoAbsStats
    ELSE LET points == [i \in DOMAIN scores |-> scores[i].activeness_score]
         IN  [avg |-> Quotient(ReduceSum(points), Len(scores)),
              highest |-> MathMax(points),
              total |-> Len(scores),
              totalModules |->
                  SetSize([i \in DOMAIN scores |-> scores[i].module_number])]

calculateStats(scores) ==
    IF Len(scores) = 0 THEN NoAbsStats
    ELSE LET points == [i \in DOMAIN scores |-> scores[i].activeness_score]
         IN  [avg |-> Quotient(ReduceSum(points), Len(scores)),
              highest |-> MathMax(points),
              total |->
                  SetSize([i \in DOMAIN scores |-> scores[i].student_name]),
              totalModules |->
                  SetSize([i \in DOMAIN scores |-> scores[i].module_number])]

\* pc: "boards" while loadBoards is in flight, "scores" while loadScores is.
InitAbs ==
    [boards |-> <<>>, selectedBoard |-> None, scores |-> <<>>, loading |-> TRUE,
     message |-> NoMessage, pc |-> "boards", stats |-> calculateStats(<<>>)]

AbsFrame == UNCHANGED <<now, batches, linkVars, attendVars, csv, students, users,
                        bm, um, rls, moduleScores, interviewRounds, leaderboards,
                        ad, app>>

ByScoreDescending(x, y) == y.activeness_score - x.activeness_score

\* module_scores rows WHERE board_id = the selected board ORDER BY
\* activeness_score descending.
BackendModuleScores ==
    Sort(moduleScores, [p \in Range(moduleScores) \X Range(moduleScores) |->
                            ByScoreDescending(p[1], p[2])])

\* loadBoards, called by the mount effect: its answer.
AbsLoadBoardsArrive(fault) ==
    /\ abs.pc = "boards"
    /\ abs' = IF fault
              THEN [abs EXCEPT !.message = Error(MsgBoardsFailed),
                               !.loading = FALSE, !.pc = "idle"]
              ELSE IF Len(BackendBoards) > 0 /\ abs.selectedBoard = None
              THEN [abs EXCEPT !.boards = BackendBoards,
                               !.selectedBoard = BackendBoards[1].id,
                               !.loading = FALSE, !.pc = "scores"]
              ELSE [abs EXCEPT !.boards = BackendBoards,
                               !.loading = FALSE, !.pc = "idle"]
    /\ hist' = Step("loadBoards", IF fault THEN "error" ELSE "ok", fault)
    /\ AbsFrame

\* loadScores, called by the effect on selectedBoard: its answer, and the
\* render that follows.
AbsLoadScoresArrive(fault) ==
    /\ abs.pc = "scores"
    /\ abs.selectedBoard # None
    /\ abs' = IF fault THEN [abs EXCEPT !.pc = "idle"]
              ELSE [abs EXCEPT !.scores = BackendModuleScores,
                               !.stats = calculateStats(BackendModuleScores),
                               !.pc = "idle"]
    /\ hist' = Step("loadScores", IF fault THEN "error" ELSE "ok", fault)
    /\ AbsFrame

\* --------------------------------------------------------- AdminDashboard
MsgLeaderboardsFailed == "Failed to load leaderboards"
MsgLeaderboardNameMissing == "Please enter a leaderboard name"
MsgLeaderboardCreated == "Leaderboard created successfully!"
MsgLeaderboardCreateFailed == "Failed to create leaderboard"
MsgUrlCopied == "Public URL copied to clipboard!"

LeaderboardIds == {"l1", "l2"}

\* The public_id the table's default gives the row of a leaderboard.
LeaderboardPublicId(id) == <<"lb", id>>

NoAdStats == [avg |-> Zero, highest |-> 0, total |-> 0]

\* calculateStats of AdminDashboard
AdCalculateStats(rounds) ==
    IF Len(rounds) = 0 THEN NoAdStats
    ELSE LET scores == [i \in DOMAIN rounds |-> rounds[i].score]
         IN  [avg |-> Quotient(ReduceSum(scores), Len(scores)),
              highest |-> MathMax(scores),
              total |-> Len(rounds)]

\* pc: "leaderboards" while the loadLeaderboards of the mount is in flight,
\* "rounds" while the loadRounds of the effect on selectedLeaderboard is.
InitAd ==
    [leaderboards |-> <<>>, selectedLeaderboard |-> None, rounds |-> <<>>,
     loading |-> TRUE, showNewForm |-> FALSE, newLeaderboardName |-> <<>>,
     newLeaderboardDesc |-> <<>>, message |-> NoMessage, pc |-> "leaderboards",
     stats |-> AdCalculateStats(<<>>)]

AdFrame == UNCHANGED <<now, batches, linkVars, attendVars, csv, students, users,
                       bm, um, rls, moduleScores, interviewRounds, abs, app>>

ByRoundScoreDescending(x, y) == y.score - x.score

\* interview_rounds rows WHERE leaderboard_id = id ORDER BY score descending.
BackendRounds(id) ==
    LET rows == SeqFilter(interviewRounds,
                          {r \in Range(interviewRounds) : r.leaderboard_id = id})
    IN  Sort(rows, [p \in Range(rows) \X Range(rows) |->
                        ByRoundScoreDescending(p[1], p[2])])

\* loadLeaderboards against table `table`; `selected` is the selectedLeaderboard
\* of the render that made the call.
AdLoadLeaderboards(s, selected, fault, table) ==
    IF fault
    THEN [s EXCEPT !.message = Error(MsgLeaderboardsFailed), !.loading = FALSE]
    ELSE IF Len(table) > 0 /\ selected = None
    THEN [s EXCEPT !.leaderboards = table, !.selectedLeaderboard = table[1].id,
                   !.loading = FALSE]
    ELSE [s EXCEPT !.leaderboards = table, !.loading = FALSE]

\* loadRounds for the selection of s, and the render that follows.
AdLoadRounds(s, fault) ==
    IF s.selectedLeaderboard = None \/ fault THEN s
    ELSE [s EXCEPT !.rounds = BackendRounds(s.selectedLeaderboard),
                   !.stats = AdCalculateStats(BackendRounds(s.selectedLeaderboard))]

\* The answer of the loadLeaderboards the mount effect called.
AdLoadLeaderboardsArrive(fault) ==
    /\ ad.pc = "leaderboards"
    /\ LET s == AdLoadLeaderboards(ad, ad.selectedLeaderboard, fault, leaderboards)
       IN  ad' = [s EXCEPT !.pc = IF s.selectedLeaderboard # ad.selectedLeaderboard
                                  THEN "rounds" ELSE "idle"]
    /\ hist' = Step("loadLeaderboards", IF fault THEN "error" ELSE "ok", fault)
    /\ UNCHANGED leaderboards
    /\ AdFrame

\* The answer of the loadRounds the effect on selectedLeaderboard called.
AdLoadRoundsArrive(fault) ==
    /\ ad.pc = "rounds"
    /\ ad' = [AdLoadRounds(ad, fault) EXCEPT !.pc = "idle"]
    /\ hist' = Step("loadRounds", IF fault THEN "error" ELSE "ok", fault)
    /\ UNCHANGED leaderboards
    /\ AdFrame

\* The New Leaderboard button, the two inputs of the form, and its Cancel button.
AdEditNewForm(open, name, desc) ==
    /\ ad.pc = "idle"
    /\ ad' = IF open
             THEN [ad EXCEPT !.showNewForm = TRUE, !.newLeaderboardName = name,
                             !.newLeaderboardDesc = desc]
             ELSE [ad EXCEPT !.showNewForm = FALSE, !.newLeaderboardName = <<>>,
                             !.newLeaderboardDesc = <<>>]
    /\ (open /\ ~ad.showNewForm) => (name = <<>> /\ desc = <<>>)
    /\ ad' # ad
    /\ hist' = Other
    /\ UNCHANGED leaderboards
    /\ AdFrame

createLeaderboard(fInsert, fLoad, fRounds) ==
    /\ ad.pc = "idle" /\ ad.showNewForm
    /\ IF trim(ad.newLeaderboardName) = <<>>
       THEN /\ ad' = [ad EXCEPT !.message = Error(MsgLeaderboardNameMissing)]
            /\ hist' = Step("createLeaderboard", "invalid", FALSE)
            /\ UNCHANGED leaderboards
       ELSE IF fInsert
       THEN /\ ad' = [ad EXCEPT !.message = Error(MsgLeaderboardCreateFailed)]
            /\ hist' = Step("createLeaderboard", "error", TRUE)
            /\ UNCHANGED leaderboards
       ELSE /\ \E id \in LeaderboardIds :
                 /\ \A i \in DOMAIN leaderboards : leaderboards[i].id # id
                 /\ leaderboards' =
                        << [id |-> id, name |-> trim(ad.newLeaderboardName),
                            description |-> trim(ad.newLeaderboardDesc),
                            public_id |-> LeaderboardPublicId(id)] >>
                        \o leaderboards
                 /\ ad' = AdLoadRounds(
                             [AdLoadLeaderboards(
                                 [ad EXCEPT
                                     !.message = Success(MsgLeaderboardCreated),
                                     !.showNewForm = FALSE,
                                     !.newLeaderboardName = <<>>,
                                     !.newLeaderboardDesc = <<>>],
                                 ad.selectedLeaderboard, fLoad, leaderboards')
                              EXCEPT !.selectedLeaderboard = id],
                             fRounds)
            /\ hist' = Step("createLeaderboard", "ok", FALSE)
    /\ AdFrame

\* The leaderboard buttons: setSelectedLeaderboard, and the loadRounds of the effect.
AdSelectLeaderboard(id, fRounds) ==
    /\ ad.pc = "idle"
    /\ id \in {ad.leaderboards[i].id : i \in DOMAIN ad.leaderboards}
    /\ id # ad.selectedLeaderboard
    /\ ad' = AdLoadRounds([ad EXCEPT !.selectedLeaderboard = id], fRounds)
    /\ hist' = Other
    /\ UNCHANGED leaderboards
    /\ AdFrame

\* -------------------------------------------------------------------- App
\* A pathname is the sequence of its segments: "/" is <<>>, "/attend/c1" is
\* <<"attend", "c1">>. Param stands for a segment ":name" of a route path.
Param == ":param"
MsgAttendanceUrlCopied == "Attendance URL copied to clipboard!"

\* The children of <Routes>, in the order of the source.
Routes ==
    << [path |-> <<"login">>, element |-> "LoginPage"],
       [path |-> <<"signup">>, element |-> "SignupPage"],
       [path |-> <<"setup">>, element |-> "AdminSetup"],
       [path |-> <<"public", Param>>, element |-> "PublicLeaderboard"],
       [path |-> <<"activeness", Param>>, element |-> "PublicActivenessBoard"],
       [path |-> <<"attend", Param>>, element |-> "PublicAttendancePage"],
       [path |-> <<"attendance", "view", Param>>, element |-> "PublicAttendanceView"],
       [path |-> <<"batch-stats", Param>>, element |-> "PublicBatchStats"],
       [path |-> <<>>, element |-> "ProtectedRoute"] >>

\* matchPath: segment by segment; a parameter takes any one segment.
MatchPath(path, pathname) ==
    /\ Len(path) = Len(pathname)
    /\ \A i \in DOMAIN path : path[i] = Param \/ pathname[i] = path[i]

\* What <Routes> renders at a pathname: the element of the matching route (no
\* two of these routes match one pathname), nothing when no route matches.
MatchRoutes(pathname) ==
    LET matches == {i \in DOMAIN Routes : MatchPath(Routes[i].path, pathname)}
    IN  IF matches = {} THEN "nothing"
        ELSE Routes[CHOOSE i \in matches : \A j \in matches : i <= j].element

ProtectedRouteWithoutPlaceholder(user, loading) ==
    IF user # None THEN "AdminPanel" ELSE "Navigate"

ProtectedRoute(user, loading) ==
    IF loading THEN "Loading"
    ELSE IF user # None THEN "AdminPanel" ELSE "Navigate"

\* app is the tab opened last; the tab of the admin panel, where the share
\* buttons are pressed, stays open beside it.
\* The render of App: <Navigate to="/login" /> moves the address to /login,
\* where the login page is rendered.
AppRender(s) ==
    LET matched == MatchRoutes(s.pathname)
        element == IF matched = "ProtectedRoute"
                   THEN ProtectedRoute(s.user, s.loading) ELSE matched
    IN  IF element = "Navigate"
        THEN [s EXCEPT !.pathname = <<"login">>,
                       !.element = MatchRoutes(<<"login">>),
                       !.redirected = TRUE]
        ELSE [s EXCEPT !.element = element, !.redirected = FALSE]

\* The panel is opened before the auth context has answered.
InitApp ==
    [pathname |-> <<>>, user |-> None, loading |-> TRUE, element |-> "Loading",
     redirected |-> FALSE, copied |-> FALSE, clipboard |-> <<>>]

AppFrame == UNCHANGED <<now, batches, linkVars, attendVars, csv, students, users,
                        bm, um, rls, boardVars>>

AppUsers == {None, "u1"}
AppPaths == { <<>>, <<"login">>, <<"nowhere">> }

\* The address bar: a pathname is opened.
AppOpen(pathname) ==
    /\ app' = AppRender([app EXCEPT !.pathname = pathname])
    /\ hist' = Step("app.open", IF app'.redirected THEN "redirect" ELSE "ok", FALSE)
    /\ AppFrame

\* useAuth: the auth context reports another user or another loading flag.
AppAuthChange(user, loading) ==
    /\ <<user, loading>> # <<app.user, app.loading>>
    /\ app' = AppRender([app EXCEPT !.user = user, !.loading = loading])
    /\ hist' = Step("app.auth", IF app'.redirected THEN "redirect" ELSE "ok", FALSE)
    /\ AppFrame

\* The address copied last is pasted into the address bar.
AppOpenCopied ==
    /\ app.copied
    /\ app' = AppRender([app EXCEPT !.pathname = app.clipboard])
    /\ hist' = Step("app.paste", IF app'.redirected THEN "redirect" ELSE "ok", FALSE)
    /\ AppFrame

\* navigator.clipboard.writeText(url)
ClipboardWrite(url) == [app EXCEPT !.copied = TRUE, !.clipboard = url]
\* window.open(url, '_blank')
WindowOpen(url) == AppRender([app EXCEPT !.pathname = url])

\* The share URLs, without window.location.origin.
AttendUrl(sessionCode) == <<"attend", sessionCode>>
AttendanceViewUrl(publicId) == <<"attendance", "view", publicId>>
BatchStatsUrl(publicId) == <<"batch-stats", publicId>>
LeaderboardUrl(publicId) == <<"leaderboard", publicId>>
ActivenessUrl(publicId) == <<"activeness", publicId>>

SessionCodes == {"c1"}
SessionPublicIds == {"s1"}

\* AttendanceSessionManager
copyAttendanceUrl(sessionCode) ==
    /\ app' = ClipboardWrite(AttendUrl(sessionCode))
    /\ asm' = [asm EXCEPT !.message = Success(MsgAttendanceUrlCopied)]
    /\ hist' = Step("copy.attend", "ok", FALSE)
    /\ UNCHANGED <<now, batches, linkVars, tz, sessions, dash, cal, csv, students,
                   users, bm, um, rls, boardVars>>

openAttendanceUrl(sessionCode) ==
    /\ app' = WindowOpen(AttendUrl(sessionCode))
    /\ hist' = Step("open.attend", "ok", FALSE)
    /\ AppFrame

\* AttendanceDashboard: copyPublicUrl alerts and sets no state.
DashCopyPublicUrl(publicId) ==
    /\ app' = ClipboardWrite(AttendanceViewUrl(publicId))
    /\ hist' = Step("copy.view", "ok", FALSE)
    /\ AppFrame

DashOpenPublicUrl(publicId) ==
    /\ app' = WindowOpen(AttendanceViewUrl(publicId))
    /\ hist' = Step("open.view", "ok", FALSE)
    /\ AppFrame

\* BatchAttendanceStats
BasCopyPublicUrl(publicId) ==
    /\ app' = ClipboardWrite(BatchStatsUrl(publicId))
    /\ bas' = [bas EXCEPT !.message = Success(MsgUrlCopied)]
    /\ hist' = Step("copy.stats", "ok", FALSE)
    /\ UNCHANGED <<now, batches, urls, pub, pubReq, attendVars, csv, students,
                   users, bm, um, rls, boardVars>>

BasOpenPublicUrl(publicId) ==
    /\ app' = WindowOpen(BatchStatsUrl(publicId))
    /\ hist' = Step("open.stats", "ok", FALSE)
    /\ AppFrame

\* AdminDashboard: the buttons are rendered for currentLeaderboard.
AdCurrentLeaderboards ==
    {ad.leaderboards[i] : i \in {k \in DOMAIN ad.leaderboards :
                                    ad.leaderboards[k].id = ad.selectedLeaderboard}}

AdCopyPublicUrl ==
    /\ ~ad.loading
    /\ \E current \in AdCurrentLeaderboards :
           app' = ClipboardWrite(LeaderboardUrl(current.public_id))
    /\ ad' = [ad EXCEPT !.message = Success(MsgUrlCopied)]
    /\ hist' = Step("copy.leaderboard", "ok", FALSE)
    /\ UNCHANGED <<now, batches, linkVars, attendVars, csv, students, users, bm,
                   um, rls, moduleScores, interviewRounds, leaderboards, abs>>

AdOpenPublicUrl ==
    /\ ~ad.loading
    /\ \E current \in AdCurrentLeaderboards :
           app' = WindowOpen(LeaderboardUrl(current.public_id))
    /\ hist' = Step("open.leaderboard", "ok", FALSE)
    /\ AppFrame

\* ActivenessBoardSelector: the buttons are rendered for currentBoard.
AbsCurrentBoards ==
    {abs.boards[i] : i \in {k \in DOMAIN abs.boards :
                               abs.boards[k].id = abs.selectedBoard}}

AbsCopyPublicUrl ==
    /\ ~abs.loading
    /\ \E current \in AbsCurrentBoards :
           app' = ClipboardWrite(ActivenessUrl(current.public_id))
    /\ abs' = [abs EXCEPT !.message = Success(MsgUrlCopied)]
    /\ hist' = Step("copy.activeness", "ok", FALSE)
    /\ UNCHANGED <<now, batches, linkVars, attendVars, csv, students, users, bm,
                   um, rls, moduleScores, interviewRounds, leaderboards, ad>>

AbsOpenPublicUrl ==
    /\ ~abs.loading
    /\ \E current \in AbsCurrentBoards :
           app' = WindowOpen(ActivenessUrl(current.public_id))
    /\ hist' = Step("open.activeness", "ok", FALSE)
    /\ AppFrame

\* --------------------------------------------------------- specifications
InitBas ==
    [batches |-> <<>>, selectedBatchId |-> "", studentStats |-> <<>>,
     batchOverview |-> NoOverview, publicUrls |-> <<>>, loading |-> TRUE,
     generating |-> FALSE, searchFilter |-> <<>>, sortBy |-> "percentage",
     sortOrder |-> "desc", message |-> NoMessage, calls |-> {}]

InitPub ==
    [mounted |-> FALSE, publicId |-> NoPublicId, studentStats |-> <<>>,
     batchOverview |-> NoOverview, batchId |-> None, loading |-> TRUE,
     refreshing |-> FALSE, autoRefresh |-> TRUE, error |-> None,
     searchFilter |-> <<>>, sortBy |-> "percentage", sortOrder |-> "desc",
     interval |-> 0, timers |-> {}]

InitHist ==
    [op |-> "init", result |-> "ok", fault |-> FALSE, check |-> "none"]

BatchRow(id, name) == [id |-> id, name |-> name, is_active |-> TRUE]

\* A stored session of the given batch and date with its marked students.
SessionRowMarked(id, batch, date, marked) ==
    [id |-> id, session_date |-> date, batch |-> batch, is_active |-> TRUE,
     expires_at |-> (date + 1) * 24 - 1, marked |-> marked]

SessionRow(id, batch, date) ==
    SessionRowMarked(id, batch, date,
                     IF batch = None THEN <<>>
                     ELSE IF date = 0 THEN << <<"a", "b">>, <<"B">> >>
                     ELSE << <<"a">> >>)

\* The session tables a run starts from: at most MaxInitSessions sessions,
\* one per (batch, date).
InitSessionTables ==
    LET keys == {None, "b1"} \X AllDates
    IN  {[i \in DOMAIN o |-> SessionRow(i, o[i][1], o[i][2])] :
            o \in {CHOOSE o \in Orderings(K) : TRUE :
                      K \in {K \in SUBSET keys : Cardinality(K) <= MaxInitSessions}}}

\* The parts of the state a specification leaves at rest.
LinksAtRest ==
    /\ urls = <<>>
    /\ bas = InitBas
    /\ pub = InitPub
    /\ pubReq = [r \in 1..MaxReq |-> IdleReq]
AttendanceAtRest ==
    /\ tz = 0
    /\ sessions = <<>>
    /\ asm = InitAsm
    /\ dash = InitDash(0)
    /\ cal = InitCal(0)
BoardsAtRest ==
    /\ moduleScores = <<>>
    /\ interviewRounds = <<>>
    /\ leaderboards = <<>>
    /\ abs = InitAbs
    /\ ad = InitAd

AdminAtRest ==
    /\ students = <<>>
    /\ users = <<>>
    /\ bm = InitBm
    /\ um = InitUm
    /\ rls = DeployedRls
    /\ BoardsAtRest
    /\ app = InitApp

\* The public view against the link table of one batch; the admin's reloads
\* of the link list are answered.
InitLinks ==
    /\ now = 0
    /\ batches = << BatchRow("b1", <<"a">>) >>
    /\ urls = <<>>
    /\ bas = InitBas
    /\ pub = InitPub
    /\ pubReq = [r \in 1..MaxReq |-> IdleReq]
    /\ AttendanceAtRest
    /\ csv = <<>>
    /\ AdminAtRest
    /\ hist = InitHist

NextLinks ==
    \/ \E f1 \in BOOLEAN : BasLoadBatches(f1, FALSE, FALSE, FALSE)
    \/ \E f1 \in BOOLEAN : generatePublicUrl(f1, FALSE)
    \/ \E id \in 1..MaxUrls, c, f1 \in BOOLEAN : revokePublicUrl(id, c, f1, FALSE)
    \/ \E pid \in {NoPublicId, Bogus} \cup {urls[i].public_id : i \in DOMAIN urls} : PubMount(pid)
    \/ PubTimerRefresh
    \/ PubManualRefresh
    \/ PubToggleAutoRefresh
    \/ \E r \in 1..MaxReq, f \in BOOLEAN : PubLookup(r, f)
    \/ \E r \in 1..MaxReq, f \in BOOLEAN : PubStats(r, f)
    \/ \E r \in 1..MaxReq, f \in BOOLEAN : PubOverview(r, f)
    \/ \E r \in 1..MaxReq, f \in BOOLEAN : PubTouch(r, f)
    \/ Tick

SpecLinks == InitLinks /\ [][NextLinks]_vars

\* The link panel of BatchAttendanceStats over two batches, every backend call
\* liable to fail.
InitLinkAdmin ==
    /\ now = 0
    /\ batches = << BatchRow("b1", <<"a">>), BatchRow("b2", <<"B">>) >>
    /\ urls = <<>>
    /\ bas = InitBas
    /\ pub = InitPub
    /\ pubReq = [r \in 1..MaxReq |-> IdleReq]
    /\ AttendanceAtRest
    /\ csv = <<>>
    /\ AdminAtRest
    /\ hist = InitHist

NextLinkAdmin ==
    \/ \E f1, f2, f3, f4 \in BOOLEAN : BasLoadBatches(f1, f2, f3, f4)
    \/ \E b \in BatchIds, f1, f2, f3 \in BOOLEAN : BasSelectBatch(b, f1, f2, f3)
    \/ \E f1, f2 \in BOOLEAN : generatePublicUrl(f1, f2)
    \/ \E id \in 1..MaxUrls, c, f1, f2 \in BOOLEAN : revokePublicUrl(id, c, f1, f2)
    \/ Tick

SpecLinkAdmin == InitLinkAdmin /\ [][NextLinkAdmin]_vars

\* AttendanceSessionManager over a session table of at most MaxSessions rows.
InitSessions ==
    /\ now = 0
    /\ batches = << BatchRow("b1", <<"a">>) >>
    /\ LinksAtRest
    /\ tz \in TzOffsets
    /\ sessions \in InitSessionTables
    /\ asm = InitAsm
    /\ dash = InitDash(0)
    /\ cal = InitCal(0)
    /\ csv = <<>>
    /\ AdminAtRest
    /\ hist = InitHist

NextSessions ==
    \/ \E f \in BOOLEAN : AsmMount(f)
    \/ \E f1, f2 \in BOOLEAN : createTodaySession(f1, f2)
    \/ \E f1, f2 \in BOOLEAN : toggleSessionStatus(f1, f2)
    \/ Tick

SpecSessions == InitSessions /\ [][NextSessions]_vars

\* AttendanceDashboard and its calendar over a stored session table.
NextCalendar ==
    \/ \E f1, f2, f3, f4 \in BOOLEAN : DashMount(f1, f2, f3, f4)
    \/ \E b \in {"all"} \cup BatchIds, f \in BOOLEAN : DashSelectBatch(b, f)
    \/ \E f \in BOOLEAN : DashRefresh(f)
    \/ \E d \in AllDates, f \in BOOLEAN : DashSelectDate(d, f)
    \/ \E f1, f2 \in BOOLEAN : previousMonth(f1, f2)
    \/ \E f1, f2 \in BOOLEAN : nextMonth(f1, f2)
    \/ Tick

SpecCalendar == InitSessions /\ [][NextCalendar]_vars

\* The refresh intervals of the public view and of the dashboard, each page
\* visited on its own: toggles, date and batch changes, timer ticks, teardown.
InitTimers ==
    /\ now = 0
    /\ batches = << BatchRow("b1", <<"a">>) >>
    /\ urls = << [id |-> 1, batch_id |-> "b1", public_id |-> PublicIdFor("b1", 0),
                  is_active |-> TRUE, expires_at |-> ExpiresAtFor(0),
                  created_at |-> 0, last_accessed_at |-> -1] >>
    /\ bas = InitBas
    /\ pub = InitPub
    /\ pubReq = [r \in 1..MaxReq |-> IdleReq]
    /\ tz = 0
    /\ sessions \in InitSessionTables
    /\ asm = InitAsm
    /\ dash = InitDash(0)
    /\ cal = InitCal(0)
    /\ csv = <<>>
    /\ AdminAtRest
    /\ hist = InitHist

NextTimers ==
    \/ dash = InitDash(0) /\ \E pid \in {Bogus, PublicIdFor("b1", 0)} : PubMount(pid)
    \/ \E r \in 1..MaxReq, f \in BOOLEAN : PubLookup(r, f)
    \/ \E r \in 1..MaxReq : PubStats(r, FALSE)
    \/ \E r \in 1..MaxReq : PubOverview(r, FALSE)
    \/ \E r \in 1..MaxReq : PubTouch(r, FALSE)
    \/ PubTimerRefresh
    \/ PubManualRefresh
    \/ PubToggleAutoRefresh
    \/ PubUnmount
    \/ pub = InitPub /\ dash = InitDash(0) /\ DashMount(FALSE, FALSE, FALSE, FALSE)
    \/ \E b \in {"all"} \cup BatchIds : DashSelectBatch(b, FALSE)
    \/ \E d \in AllDates : DashSelectDate(d, FALSE)
    \/ DashToggleAutoRefresh
    \/ \E f \in BOOLEAN : DashTimerRefresh(f)
    \/ DashRefresh(FALSE)
    \/ DashUnmount
    \/ Tick

SpecTimers == InitTimers /\ [][NextTimers]_vars

\* The tables of the three views over loaded data: one view is open, holding
\* what its load returned.
Names == { <<"a">>, <<"a", "b">>, <<"B">> }
Filters == { <<>>, <<"a">>, <<"B">> }
Columns == {"name", "percentage", "present"}

StatRow(name, present) ==
    [student_name |-> name, sessions_present |-> present,
     total_sessions |-> MaxPresent,
     attendance_percentage |-> (present * 100) \div MaxPresent]

\* The lists of statistics get_batch_attendance_stats may return for a batch
\* of at most MaxStudents students, each under a name of their own.
StatLists ==
    UNION {{[i \in DOMAIN o |-> StatRow(o[i], p[i])] :
               o \in Orderings(N), p \in [1..Cardinality(N) -> 0..MaxPresent]} :
           N \in {N \in SUBSET Names : Cardinality(N) <= MaxStudents}}

InitTables ==
    /\ now = 0
    /\ batches = << BatchRow("b1", <<"a">>) >>
    /\ tz = 0
    /\ asm = InitAsm
    /\ cal = InitCal(0)
    /\ csv = <<>>
    /\ AdminAtRest
    /\ hist = InitHist
    /\ pubReq = [r \in 1..MaxReq |-> IdleReq]
    /\ \E view \in {"bas", "pub", "dash"} :
          /\ urls = IF view = "pub"
                    THEN << [id |-> 1, batch_id |-> "b1", public_id |-> PublicIdFor("b1", 0),
                             is_active |-> TRUE, expires_at |-> ExpiresAtFor(0),
                             created_at |-> 0, last_accessed_at |-> 0] >>
                    ELSE <<>>
          /\ IF view = "bas"
             THEN \E list \in StatLists :
                     bas = [InitBas EXCEPT
                               !.batches = BackendActiveBatches,
                               !.selectedBatchId = "b1", !.loading = FALSE,
                               !.studentStats = list,
                               !.batchOverview = [batch_name |-> "b1",
                                                  total_students |-> Len(list)]]
             ELSE bas = InitBas
          /\ IF view = "pub"
             THEN \E list \in StatLists :
                     pub = [InitPub EXCEPT
                               !.mounted = TRUE, !.publicId = PublicIdFor("b1", 0),
                               !.batchId = "b1", !.loading = FALSE,
                               !.interval = 1, !.timers = {1},
                               !.studentStats = list,
                               !.batchOverview = [batch_name |-> "b1",
                                                  total_students |-> Len(list)]]
             ELSE pub = InitPub
          /\ IF view = "dash"
             THEN \E N \in SUBSET Names : \E marked \in Orderings(N) :
                     /\ sessions = << SessionRowMarked(1, "b1", 0, marked) >>
                     /\ dash = [InitDash(0) EXCEPT
                                  !.mounted = TRUE,
                                  !.sessions = << [id |-> 1, session_date |-> 0,
                                                   batch |-> "b1", is_active |-> TRUE,
                                                   expires_at |-> 23] >>,
                                  !.loading = FALSE,
                                  !.stats = [date |-> 0, batchName |-> "b1",
                                             total_present |-> Len(marked),
                                             attendance_percentage |->
                                                IF Len(marked) > 0 THEN 100 ELSE 0,
                                             records |->
                                                [k \in DOMAIN marked |->
                                                    [student_name |-> marked[k],
                                                     status |-> "present"]]]]
             ELSE sessions = <<>> /\ dash = InitDash(0)

NextTables ==
    \/ \E f \in Filters : BasSetSearchFilter(f)
    \/ \E c \in Columns : BasHandleSort(c)
    \/ BasExportToCSV
    \/ \E f \in Filters : PubSetSearchFilter(f)
    \/ \E c \in Columns : PubHandleSort(c)
    \/ PubExportToCSV
    \/ \E f \in Filters : DashSetSearchFilter(f)
    \/ DashExportToCSV

SpecTables == InitTables /\ [][NextTables]_vars

\* One visit of one admin page: BatchAttendanceStats, AttendanceSessionManager,
\* BatchManagement or UserManagement, with every mutation liable to fail and every reload after a mutation answered.
Page ==
    IF bas # InitBas THEN "batchstats"
    ELSE IF asm # InitAsm THEN "attendance"
    ELSE IF bm # InitBm THEN "batches"
    ELSE IF um # InitUm THEN "users"
    ELSE "none"

FieldValues == { <<>>, <<" ", "a">> }

InitMutations ==
    /\ now = 0
    /\ batches = << BatchRow("b1", <<"a">>) >>
    /\ LinksAtRest
    /\ AttendanceAtRest
    /\ csv = <<>>
    /\ students = <<>>
    /\ users = << [id |-> AdminId], [id |-> AdminId + 1] >>
    /\ bm = InitBm
    /\ um = InitUm
    /\ rls = DeployedRls
    /\ BoardsAtRest
    /\ app = InitApp
    /\ hist = InitHist

NextMutations ==
    \/ Page \in {"none", "batchstats"} /\ \E f1, f2 \in BOOLEAN : BasLoadBatches(f1, FALSE, FALSE, f2)
    \/ \E f \in BOOLEAN : generatePublicUrl(f, FALSE)
    \/ \E id \in 1..MaxUrls, c, f \in BOOLEAN : revokePublicUrl(id, c, f, FALSE)
    \/ Page \in {"none", "attendance"} /\ \E f \in BOOLEAN : AsmMount(f)
    \/ \E f \in BOOLEAN : createTodaySession(f, FALSE)
    \/ \E f \in BOOLEAN : toggleSessionStatus(f, FALSE)
    \/ Page \in {"none", "batches"} /\ \E f1, f2 \in BOOLEAN : BmMount(f1, f2)
    \/ \E b \in BatchIds, f \in BOOLEAN : BmSelectBatch(b, f)
    \/ \E open \in BOOLEAN, name \in FieldValues : BmEditBatchForm(open, name)
    \/ \E open \in BOOLEAN, name \in FieldValues : BmEditStudentForm(open, name)
    \/ \E f \in BOOLEAN : createBatch(f, FALSE, FALSE)
    \/ \E f \in BOOLEAN : addStudent(f, FALSE)
    \/ \E id \in 1..MaxStudentRows, c, f \in BOOLEAN : deleteStudent(id, c, f, FALSE)
    \/ \E b \in BatchIds, c, f \in BOOLEAN : deleteBatch(b, c, f, FALSE)
    \/ Page \in {"none", "users"} /\ \E f \in BOOLEAN : UmMount(f)
    \/ \E id \in {AdminId, AdminId + 1} : confirmDeleteUser(id)
    \/ UmCancelDelete
    \/ \E f \in BOOLEAN : deleteUser(f)

SpecMutations == InitMutations /\ [][NextMutations]_vars

\* The activeness board against every small content of table module_scores.
ModuleScoreRows ==
    [student_name : {<<"a">>, <<"b">>}, module_number : {1, 2},
     activeness_score : {3, 10}]
ModuleScoreTables == UNION {[1..n -> ModuleScoreRows] : n \in 0..MaxScores}

InitActiveness ==
    /\ now = 0
    /\ batches = <<>>
    /\ LinksAtRest
    /\ AttendanceAtRest
    /\ csv = <<>>
    /\ students = <<>>
    /\ users = <<>>
    /\ bm = InitBm
    /\ um = InitUm
    /\ rls = DeployedRls
    /\ moduleScores \in ModuleScoreTables
    /\ interviewRounds = <<>>
    /\ leaderboards = <<>>
    /\ abs = InitAbs
    /\ ad = InitAd
    /\ app = InitApp
    /\ hist = InitHist

NextActiveness ==
    \/ \E fault \in BOOLEAN : AbsLoadBoardsArrive(fault)
    \/ \E fault \in BOOLEAN : AbsLoadScoresArrive(fault)

SpecActiveness == InitActiveness /\ [][NextActiveness]_vars

\* The interview leaderboard against every small content of table
\* interview_rounds; leaderboard l1 exists, l2 can be created.
LeaderboardRow(id, name) ==
    [id |-> id, name |-> name, description |-> <<>>,
     public_id |-> LeaderboardPublicId(id)]
InterviewRoundRows ==
    [leaderboard_id : {"l1"}, student_name : {<<"a">>, <<"b">>},
     round_number : {1, 2}, score : {3, 10}]
InterviewRoundTables == UNION {[1..n -> InterviewRoundRows] : n \in 0..MaxRounds}

InitLeaderboard ==
    /\ now = 0
    /\ batches = <<>>
    /\ LinksAtRest
    /\ AttendanceAtRest
    /\ csv = <<>>
    /\ students = <<>>
    /\ users = <<>>
    /\ bm = InitBm
    /\ um = InitUm
    /\ rls = DeployedRls
    /\ moduleScores = <<>>
    /\ interviewRounds \in InterviewRoundTables
    /\ leaderboards = << LeaderboardRow("l1", <<"a">>) >>
    /\ abs = InitAbs
    /\ ad = InitAd
    /\ app = InitApp
    /\ hist = InitHist

NextLeaderboard ==
    \/ \E fault \in BOOLEAN : AdLoadLeaderboardsArrive(fault)
    \/ \E fault \in BOOLEAN : AdLoadRoundsArrive(fault)
    \/ \E open \in BOOLEAN, name \in FieldValues : AdEditNewForm(open, name, <<>>)
    \/ \E fInsert, fLoad, fRounds \in BOOLEAN :
           createLeaderboard(fInsert, fLoad, fRounds)
    \/ \E id \in LeaderboardIds, fRounds \in BOOLEAN : AdSelectLeaderboard(id, fRounds)

SpecLeaderboard == InitLeaderboard /\ [][NextLeaderboard]_vars

\* The routes of App: the admin's share buttons, the address bar and the
\* auth context, with one leaderboard and one activeness board stored.
InitRoutes ==
    /\ now = 0
    /\ batches = <<>>
    /\ LinksAtRest
    /\ AttendanceAtRest
    /\ csv = <<>>
    /\ students = <<>>
    /\ users = <<>>
    /\ bm = InitBm
    /\ um = InitUm
    /\ rls = DeployedRls
    /\ moduleScores = <<>>
    /\ interviewRounds = <<>>
    /\ leaderboards = << LeaderboardRow("l1", <<"a">>) >>
    /\ abs = InitAbs
    /\ ad = InitAd
    /\ \E user \in AppUsers, loading \in BOOLEAN :
           app = AppRender([InitApp EXCEPT !.user = user, !.loading = loading])
    /\ hist = InitHist

NextRoutes ==
    \/ \E pathname \in AppPaths : AppOpen(pathname)
    \/ \E user \in AppUsers, loading \in BOOLEAN : AppAuthChange(user, loading)
    \/ AppOpenCopied
    \/ \E fault \in BOOLEAN : AbsLoadBoardsArrive(fault)
    \/ \E fault \in BOOLEAN : AbsLoadScoresArrive(fault)
    \/ \E fault \in BOOLEAN : AdLoadLeaderboardsArrive(fault)
    \/ \E fault \in BOOLEAN : AdLoadRoundsArrive(fault)
    \/ \E sessionCode \in SessionCodes : copyAttendanceUrl(sessionCode)
    \/ \E sessionCode \in SessionCodes : openAttendanceUrl(sessionCode)
    \/ \E publicId \in SessionPublicIds : DashCopyPublicUrl(publicId)
    \/ \E publicId \in SessionPublicIds : DashOpenPublicUrl(publicId)
    \/ BasCopyPublicUrl(PublicIdFor("b1", now))
    \/ BasOpenPublicUrl(PublicIdFor("b1", now))
    \/ AdCopyPublicUrl
    \/ AdOpenPublicUrl
    \/ AbsCopyPublicUrl
    \/ AbsOpenPublicUrl

SpecRoutes == InitRoutes /\ [][NextRoutes]_vars

\* The four create forms of the admin panel, one page of the panel at a time,
\* their text fields empty, of blanks only, or filled.
FormTexts == { <<>>, <<" ">>, <<" ", "a">> }

InitForms ==
    /\ now = 0
    /\ batches = << BatchRow("b1", <<"a">>) >>
    /\ LinksAtRest
    /\ AttendanceAtRest
    /\ csv = <<>>
    /\ students = <<>>
    /\ users = << [id |-> AdminId] >>
    /\ bm = InitBm
    /\ um = InitUm
    /\ rls = DeployedRls
    /\ moduleScores = <<>>
    /\ interviewRounds = <<>>
    /\ leaderboards = << LeaderboardRow("l1", <<"a">>) >>
    /\ abs = InitAbs
    /\ ad = InitAd
    /\ app = InitApp
    /\ hist = InitHist

NextForms ==
    \/ um = InitUm /\ ad = InitAd /\ \E f1, f2 \in BOOLEAN : BmMount(f1, f2)
    \/ \E open \in BOOLEAN, name \in FormTexts : BmEditBatchForm(open, name)
    \/ \E open \in BOOLEAN, name \in FormTexts : BmEditStudentForm(open, name)
    \/ \E f \in BOOLEAN : createBatch(f, FALSE, FALSE)
    \/ \E f \in BOOLEAN : addStudent(f, FALSE)
    \/ bm = InitBm /\ ad = InitAd /\ um = InitUm /\ \E f \in BOOLEAN : UmMount(f)
    \/ \E open \in BOOLEAN : UmShowAddModal(open)
    \/ \E field \in {"email", "password", "name"}, text \in FormTexts :
          UmEditNewUser(field, text)
    \/ UmCreateUserStart
    \/ \E f, u \in BOOLEAN : UmSignUpArrive(f, u)
    \/ \E f \in BOOLEAN : UmInsertArrive(f)
    \/ \E f \in BOOLEAN : UmReloadArrive(f)
    \/ bm = InitBm /\ um = InitUm /\ \E f \in BOOLEAN : AdLoadLeaderboardsArrive(f)
    \/ \E f \in BOOLEAN : AdLoadRoundsArrive(f)
    \/ \E open \in BOOLEAN, name \in FormTexts : AdEditNewForm(open, name, <<>>)
    \/ \E f \in BOOLEAN : createLeaderboard(f, FALSE, FALSE)

SpecForms == InitForms /\ [][NextForms]_vars

\* ------------------------------------------------------------------ claims
\* The one row the lookup of the public view reads, when there is exactly one.
LinkRead == IF Cardinality(UrlsByPublicId(pub.publicId)) = 1
            THEN urls[CHOOSE i \in UrlsByPublicId(pub.publicId) : TRUE]
            ELSE NoUrlRow

\* This step is a link check that the backend answered with the link's row.
LinkChecked == hist'.op = "lookup" /\ ~hist'.fault /\ LinkRead # NoUrlRow

\* This step is a link check of a stored link, answered or failed.
LinkLookedUp == hist'.op = "lookup" /\ LinkRead # NoUrlRow

\* C1: after revokePublicUrl has succeeded for a link (its row is inactive),
\* every link check of PublicBatchStats.loadBatchStats for that link, on the
\* initial load or on a refresh, ends on the error page with the 'revoked'
\* message (the load-failure message when the lookup request itself fails):
\* never with the 'not found' message and never with statistics displayed.
C1_RevokedIsShownAsRevoked ==
    [][ (LinkLookedUp /\ ~LinkRead.is_active)
          => /\ pub'.error = (IF hist'.fault THEN MsgLoadFailed ELSE MsgRevoked)
             /\ PubView' = "error"
             /\ pub'.error # MsgNotFound
             /\ ~PubShowsStats' ]_vars

C1_Witness ==
    /\ hist.op = "lookup" /\ hist.result = "revoked"
    /\ pub.error = MsgRevoked
    /\ pub.studentStats # <<>>
    /\ bas.message.text = MsgUrlRevoked

\* C2 as stated: a link check made at a time later than the link's expires_at
\* shows the 'expired' message, for every link.
C2_Original_ExpiredIsShownAsExpired ==
    [][ (LinkChecked /\ LinkRead.expires_at < now) => pub'.error = MsgExpired ]_vars

\* C2 amended: a link check made at a time later than expires_at of a link
\* that has not been revoked shows the 'expired' message (the load-failure
\* message when the lookup request itself fails).
C2_ActiveExpiredIsShownAsExpired ==
    [][ (LinkLookedUp /\ LinkRead.is_active /\ LinkRead.expires_at < now)
          => /\ pub'.error = (IF hist'.fault THEN MsgLoadFailed ELSE MsgExpired)
             /\ PubView' = "error" ]_vars

C2_Witness ==
    /\ hist.op = "lookup" /\ hist.result = "expired"
    /\ pub.error = MsgExpired
    /\ LinkRead.is_active /\ LinkRead.expires_at < now

\* C3: PublicBatchStats displays the statistics only when the most recent
\* completed link check found the link present, active and unexpired.
C3_StatsOnlyAfterPassedCheck == PubShowsStats => hist.check = "ok"

Qualifying ==
    {i \in DOMAIN bas.publicUrls :
        bas.publicUrls[i].is_active /\ ~(bas.publicUrls[i].expires_at < now)}

\* C9: the link surfaced as the active link is the first link of the loaded
\* created_at-descending list that is active and unexpired; none is surfaced
\* when no loaded link is active and unexpired, and exactly then the
\* 'Generate Public URL' action is offered.
C9_FirstActiveLinkSurfaced ==
    /\ \A i, j \in DOMAIN bas.publicUrls :
          i < j => bas.publicUrls[i].created_at >= bas.publicUrls[j].created_at
    /\ Qualifying = {} <=> activeUrl = NoUrl
    /\ Qualifying # {} =>
          \E i \in Qualifying :
              /\ \A j \in Qualifying : i <= j
              /\ activeUrl = bas.publicUrls[i]
    /\ BasRendered => (GenerateOffered <=> Qualifying = {})

C9_Witness ==
    /\ Cardinality(Qualifying) = 2
    /\ activeUrl = bas.publicUrls[1]
    /\ bas.publicUrls[1] # bas.publicUrls[2]

\* C4: a session is stored at most once per (batch, date): when
\* createTodaySession runs while a session of its (batch, date) is stored, no
\* second session is stored, the session list is unchanged and the message is
\* the duplicate-specific one (the generic failure message only when the
\* insert request itself fails).
C4_DuplicateSessionRejected ==
    [][ /\ \A i, j \in DOMAIN sessions' :
              (/\ sessions'[i].batch = sessions'[j].batch
               /\ sessions'[i].session_date = sessions'[j].session_date) => i = j
        /\ (hist'.op = "createTodaySession" /\ SessionExists(sessions, None, Today))
              => /\ sessions' = sessions
                 /\ asm'.sessions = asm.sessions
                 /\ asm'.message.type = "error"
                 /\ asm'.message.text =
                       (IF hist'.fault THEN MsgCreateFailed ELSE MsgSessionExists) ]_vars

C4_Witness ==
    /\ hist.op = "createTodaySession" /\ hist.result = "error" /\ ~hist.fault
    /\ SessionExists(sessions, None, Today)
    /\ asm.message.text = MsgSessionExists
    /\ todaySession = NoSession

\* C7: after loadMonthAttendance has completed, every session of the displayed
\* month that the batch filter in force admits is the one the calendar holds
\* for its date, with its count and metadata: none is replaced by another
\* session of the same date.
C7_CalendarHoldsEverySessionOfMonth ==
    (hist.op = "loadMonthAttendance" /\ hist.result = "ok")
      => \A i \in DashRows(dash.selectedBatchId) :
            sessions[i].session_date \in MonthDays(cal.currentMonth)
              => cal.attendanceData[sessions[i].session_date] = DayAttendance(sessions[i])


DistinctPercentages(stats) ==
    \A i, j \in DOMAIN stats :
        stats[i].attendance_percentage = stats[j].attendance_percentage => i = j

\* C5: after exportToCSV has written a file, the number of its data rows is
\* the number of rows the table shows under the search filter and sort in
\* force (filteredRecords in AttendanceDashboard, sortedStats in
\* BatchAttendanceStats and PublicBatchStats).
C5_ExportedRowsAreShownRows ==
    /\ (hist.op = "bas.exportToCSV" /\ hist.result = "ok") => Len(csv) = Len(BasSortedStats)
    /\ (hist.op = "pub.exportToCSV" /\ hist.result = "ok") => Len(csv) = Len(PubSortedStats)
    /\ (hist.op = "dash.exportToCSV" /\ hist.result = "ok") => Len(csv) = Len(filteredRecords)

\* C6: over statistics of pairwise distinct attendance percentages the rows
\* sorted by percentage descending are exactly the reverse of the rows sorted
\* by percentage ascending, and handleSort on the selected percentage column
\* switches the table from the one order to the other.
C6_DescendingIsReverseOfAscending ==
    [][ /\ DistinctPercentages(bas.studentStats) =>
              /\ SortedStats(bas.studentStats, bas.searchFilter, "percentage", "desc")
                   = Reverse(SortedStats(bas.studentStats, bas.searchFilter,
                                         "percentage", "asc"))
              /\ (hist'.op = "bas.handleSort" /\ hist'.result = "percentage"
                    /\ bas.sortBy = "percentage")
                   => /\ bas'.sortBy = "percentage"
                      /\ bas'.sortOrder # bas.sortOrder
                      /\ BasSortedStats' = Reverse(BasSortedStats)
        /\ DistinctPercentages(pub.studentStats) =>
              /\ SortedStats(pub.studentStats, pub.searchFilter, "percentage", "desc")
                   = Reverse(SortedStats(pub.studentStats, pub.searchFilter,
                                         "percentage", "asc"))
              /\ (hist'.op = "pub.handleSort" /\ hist'.result = "percentage"
                    /\ pub.sortBy = "percentage")
                   => /\ pub'.sortBy = "percentage"
                      /\ pub'.sortOrder # pub.sortOrder
                      /\ PubSortedStats' = Reverse(PubSortedStats) ]_vars

C6_Witness ==
    /\ hist.op = "pub.handleSort" /\ hist.result = "percentage"
    /\ pub.sortBy = "percentage" /\ pub.sortOrder = "asc"
    /\ Len(PubSortedStats) = 3
    /\ DistinctPercentages(pub.studentStats)
    /\ PubSortedStats[1].attendance_percentage < PubSortedStats[3].attendance_percentage

Mutations ==
    {"createTodaySession", "toggleSessionStatus", "generatePublicUrl",
     "revokePublicUrl", "createBatch", "addStudent", "deleteStudent",
     "deleteBatch", "deleteUser"}

\* C10: a mutation that fails at the backend leaves every piece of client
\* state other than the error message or notification as it was before the
\* mutation was invoked: lists, selection, open forms and dialogs, field values.
C10_FailedMutationChangesOnlyTheMessage ==
    [][ (hist'.op \in Mutations /\ hist'.result = "error")
          => /\ bas' = [bas EXCEPT !.message = bas'.message]
             /\ asm' = [asm EXCEPT !.message = asm'.message]
             /\ bm' = [bm EXCEPT !.message = bm'.message]
             /\ um' = [um EXCEPT !.notification = um'.notification]
             /\ UNCHANGED <<pub, pubReq, dash, cal>> ]_vars

\* The roster of the selected batch holds a student of the typed name.
StudentNameTaken ==
    \E i \in DOMAIN students :
        /\ students[i].batch_id = bm.selectedBatch
        /\ students[i].student_name = trim(bm.studentName)

\* C11: addStudent with a name the selected batch already holds (unique
\* violation, code 23505) sets 'Student already exists in this batch', never
\* the generic message, and leaves the roster, the open form and the typed
\* field values unchanged; any other backend error sets the generic message.
C11_DuplicateStudentHasOwnMessage ==
    [][ (hist'.op = "addStudent" /\ hist'.result = "error")
          => /\ bm' = [bm EXCEPT !.message = bm'.message]
             /\ students' = students
             /\ bm'.message = Error(IF hist'.fault THEN MsgStudentAddFailed
                                    ELSE MsgStudentExists)
             /\ ~hist'.fault => StudentNameTaken ]_vars

C11_Witness ==
    /\ hist.op = "addStudent" /\ hist.result = "error" /\ ~hist.fault
    /\ bm.message = Error(MsgStudentExists)
    /\ bm.showStudentForm /\ bm.studentName = <<" ", "a">>
    /\ Len(bm.students) = 1 /\ StudentNameTaken

\* The error message state of the component a load belongs to.
MessageOfLoad(op) ==
    CASE op = "bas.loadBatches" -> bas.message
      [] op = "asm.loadSessions" -> asm.message
      [] op \in {"bm.loadBatches", "bm.loadStudents"} -> bm.message
      [] op = "um.loadUsers" -> um.notification

\* C12: after a load that failed at the backend the component's error message
\* state is set: the failure is surfaced as an error banner.
C12_FailedLoadSetsErrorMessage ==
    (hist.op \in {"bas.loadBatches", "asm.loadSessions", "bm.loadBatches",
                  "bm.loadStudents", "um.loadUsers"}
       /\ hist.result = "error")
      => MessageOfLoad(hist.op).type = "error"

\* C13: in AttendanceDashboard, whenever a specific batch is selected and daily
\* statistics are displayed, the statistics and the session whose public URL
\* is surfaced belong to a session of the selected batch.
C13_DashboardShowsSelectedBatchOnly ==
    (~dash.loading /\ dash.selectedBatchId # "all" /\ dash.stats # NoStats)
      => /\ dash.stats.batchName = dash.selectedBatchId
         /\ currentSession # NoSession => currentSession.batch = dash.selectedBatchId

\* The dashboard displays the record list of the session of the selected date.
DashShowsCurrentSession ==
    /\ dash.stats # NoStats
    /\ dash.stats.date = dash.selectedDate
    /\ dash.stats.records = RecordsOf(currentSession.id)

\* C14: once the dashboard's loads have completed without a failure, whether
\* after the mount (the default date, today) or after a click on a day of the
\* calendar, and the selected date has a session, the record list of that
\* session is displayed, no manual refresh being needed.
C14_SelectedSessionIsDisplayed ==
    (hist.op \in {"loadMonthAttendance", "dash.selectDate"} /\ ~hist.fault
       /\ ~dash.loading /\ currentSession # NoSession)
      => DashShowsCurrentSession

\* C14, the calendar click alone: after a click on a day whose loads did not
\* fail, the session the dashboard holds for that day has its records displayed.
C14_ClickedSessionIsDisplayed ==
    (hist.op = "dash.selectDate" /\ ~hist.fault /\ currentSession # NoSession)
      => DashShowsCurrentSession

\* The records stored for the session of the given id.
StoredCount(sessionId) ==
    Len(sessions[CHOOSE i \in DOMAIN sessions : sessions[i].id = sessionId].marked)

\* C15: the daily percentage loadDailyStats and loadMonthAttendance compute is
\* 100 when the session has at least one record and 0 otherwise, whatever the
\* record count, so that the colour of a calendar cell is the high or the low
\* bucket, never the medium one.
C15_PercentageIsAllOrNothing ==
    /\ dash.stats # NoStats =>
          /\ dash.stats.total_present = Len(dash.stats.records)
          /\ dash.stats.attendance_percentage =
                (IF Len(dash.stats.records) >= 1 THEN 100 ELSE 0)
    /\ \A d \in AllDates :
          cal.attendanceData[d] # NoDay =>
              LET cell == cal.attendanceData[d]
              IN  /\ cell.count = StoredCount(cell.sessionId)
                  /\ cell.percentage = (IF cell.count >= 1 THEN 100 ELSE 0)
                  /\ getAttendanceColor(cell.percentage) \in {"bg-green-500", "bg-red-500"}

C15_Witness ==
    /\ dash.stats # NoStats /\ Len(dash.stats.records) = 2
    /\ dash.stats.attendance_percentage = 100
    /\ \E d, e \in AllDates :
          /\ cal.attendanceData[d].sessionId # 0 /\ cal.attendanceData[d].count = 0
          /\ getAttendanceColor(cal.attendanceData[d].percentage) = "bg-red-500"
          /\ cal.attendanceData[e].count >= 1
          /\ getAttendanceColor(cal.attendanceData[e].percentage) = "bg-green-500"

\* C16: in AttendanceDashboard and in PublicBatchStats at most one refresh
\* interval is armed at any moment, none is armed once the component is torn
\* down or auto-refresh is switched off, and a timer-driven fetch is started
\* only in a mounted component with auto-refresh on, whatever the sequence of
\* toggles, date changes and batch-id changes.
C16_OneIntervalClearedOnTeardown ==
    [][ /\ Cardinality(pub'.timers) <= 1
        /\ Cardinality(dash'.timers) <= 1
        /\ (~pub'.mounted \/ ~pub'.autoRefresh) => pub'.timers = {}
        /\ (~dash'.mounted \/ ~dash'.autoRefresh) => dash'.timers = {}
        /\ hist'.op = "pub.timer" => (pub.mounted /\ pub.autoRefresh)
        /\ hist'.op = "dash.timer" => (dash.mounted /\ dash.autoRefresh) ]_vars

C16_Witness ==
    /\ ~dash.mounted /\ dash.autoRefresh /\ dash.selectedDate # Today
    /\ dash.timers = {}
    /\ dash.stats # NoStats

InitPolicies ==
    /\ now = 0
    /\ batches = <<>>
    /\ LinksAtRest
    /\ AttendanceAtRest
    /\ csv = <<>>
    /\ students = <<>>
    /\ users = <<>>
    /\ bm = InitBm
    /\ um = InitUm
    /\ rls \in {InitRls(ps) : ps \in SUBSET LegacyPolicies}
    /\ BoardsAtRest
    /\ app = InitApp
    /\ hist = InitHist

NextPolicies ==
    \/ \E m \in Migrations : ApplyMigration(m)
    \/ \E role \in Roles : InsertBatch(role)

SpecPolicies == InitPolicies /\ [][NextPolicies]_vars

\* C18: once every migration of the INSERT policy of batches is applied, no
\* policy in force accepts a row whatever the role, and an insert succeeds
\* for an admin or an editor and is denied for a viewer.
AllMigrationsApplied == rls.applied = Migrations

InitOverlap ==
    /\ now = 0
    /\ batches = << BatchRow("b1", <<"a">>) >>
    /\ urls = << [id |-> 1, batch_id |-> "b1", public_id |-> PublicIdFor("b1", 0),
                  is_active |-> TRUE, expires_at |-> ExpiresAtFor(0),
                  created_at |-> 0, last_accessed_at |-> -1] >>
    /\ bas = InitBas
    /\ pub = InitPub
    /\ pubReq = [r \in 1..MaxReq |-> IdleReq]
    /\ tz = 0
    /\ sessions = << SessionRow(1, "b1", 0), SessionRow(2, "b1", 1) >>
    /\ asm = InitAsm
    /\ dash = InitDash(0)
    /\ cal = InitCal(0)
    /\ csv = <<>>
    /\ AdminAtRest
    /\ hist = InitHist

DashboardClosed == ~dash.mounted /\ dash.requests = <<>>

NextOverlap ==
    \/ pub = InitPub /\ bas = InitBas /\ dash = InitDash(0)
          /\ DashMount(FALSE, FALSE, FALSE, FALSE)
    \/ \E d \in AllDates : DashSelectDateStart(d)
    \/ DashRefreshStart
    \/ DashToggleAutoRefresh
    \/ DashTimerStart
    \/ \E k \in 1..MaxReq, f \in BOOLEAN : DashArrive(k, f)
    \/ dash.requests = <<>> /\ DashUnmount
    \/ DashboardClosed /\ BasLoadBatches(FALSE, FALSE, FALSE, FALSE)
    \/ DashboardClosed /\ \E id \in 1..MaxUrls : revokePublicUrl(id, TRUE, FALSE, FALSE)
    \/ DashboardClosed /\ PubMount(PublicIdFor("b1", 0))
    \/ PubTimerRefresh
    \/ PubManualRefresh
    \/ \E r \in 1..MaxReq : PubLookup(r, FALSE)
    \/ \E r \in 1..MaxReq, f \in BOOLEAN : PubStats(r, f)
    \/ \E r \in 1..MaxReq : PubOverview(r, FALSE)
    \/ \E r \in 1..MaxReq : PubTouch(r, FALSE)

SpecOverlap == InitOverlap /\ [][NextOverlap]_vars

\* C19: calls of loadBatchStats, or of loadDailyStats, in flight together are
\* never cancelled, and each response overwrites the view when it arrives,
\* whether or not a call made later has already been answered: a call that
\* begins leaves the calls in flight as they are, the public view shows the
\* outcome of the loadBatchStats call that ended last, and the dashboard the
\* outcome of the loadDailyStats call that ended last.
PubInFlight(r) == pubReq[r].pc # "idle"

C19_LastResponseIsDisplayed ==
    [][ /\ \A r \in DOMAIN pubReq :
              PubInFlight(r) /\ pubReq'[r].pc = "idle" =>
                 PubView' = IF pubReq[r].pc = "touch" THEN "stats" ELSE "error"
        /\ \A r \in DOMAIN pubReq :
              (/\ PubInFlight(r)
               /\ \E q \in DOMAIN pubReq \ {r} : ~PubInFlight(q) /\ pubReq'[q].pc # "idle")
                 => pubReq'[r] = pubReq[r]
        /\ Len(dash'.requests) > Len(dash.requests) =>
              SubSeq(dash'.requests, 1, Len(dash.requests)) = dash.requests
        /\ \A k \in DOMAIN dash.requests :
              dash.mounted /\ dash'.requests = DashRetire(dash.requests, k) =>
                 /\ ~dash'.refreshing
                 /\ dash'.stats = IF hist'.fault THEN NoStats
                                  ELSE [dash'.stats EXCEPT !.date = dash.requests[k].date]
                 /\ hist'.fault \/ dash'.stats.records = RecordsOf(dash.requests[k].session.id)
      ]_vars

C19_Witness ==
    /\ hist.op = "pub.late"
    /\ PubShowsStats
    /\ hist.check = "revoked"
    /\ dash.requests = <<>>
    /\ dash.stats # NoStats
    /\ dash.stats.date # dash.selectedDate

\* The batch selector of BatchAttendanceStats over two batches, one of them
\* with an active link, the loads of a selection staying in flight.
InitBatchSwitch ==
    /\ now = 0
    /\ batches = << BatchRow("b1", <<"a">>), BatchRow("b2", <<"B">>) >>
    /\ urls = << [id |-> 1, batch_id |-> "b1", public_id |-> PublicIdFor("b1", 0),
                  is_active |-> TRUE, expires_at |-> ExpiresAtFor(0),
                  created_at |-> 0, last_accessed_at |-> -1] >>
    /\ bas = InitBas
    /\ pub = InitPub
    /\ pubReq = [r \in 1..MaxReq |-> IdleReq]
    /\ AttendanceAtRest
    /\ csv = <<>>
    /\ AdminAtRest
    /\ hist = InitHist

BasCalls ==
    [kind : {"stats", "overview", "urls"}, batch : {"b1", "b2"}]

NextBatchSwitch ==
    \/ BasLoadBatches(FALSE, FALSE, FALSE, FALSE)
    \/ \E b \in {"b1", "b2"} : BasSelectBatchStart(b)
    \/ \E call \in BasCalls, f \in BOOLEAN : BasStatsArrive(call, f)
    \/ \E call \in BasCalls, f \in BOOLEAN : BasOverviewArrive(call, f)
    \/ \E call \in BasCalls, f \in BOOLEAN : BasUrlsArrive(call, f)
    \/ \E c \in BOOLEAN : revokePublicUrl(1, c, FALSE, FALSE)

SpecBatchSwitch == InitBatchSwitch /\ [][NextBatchSwitch]_vars

\* C20: in BatchAttendanceStats, whenever no request is in flight, the
\* displayed per-student statistics, the overview cards and the surfaced
\* active link all belong to the selected batch.
BasOverviewOf(b) ==
    IF Len(BackendOverview(b)) > 0 THEN BackendOverview(b)[1] ELSE NoOverview

C20_DisplayedBelongsToSelectedBatch ==
    (BasRendered /\ bas.calls = {}) =>
        /\ bas.studentStats = BackendStudentStats(bas.selectedBatchId)
        /\ bas.batchOverview = BasOverviewOf(bas.selectedBatchId)
        /\ activeUrl # NoUrl =>
              \E i \in DOMAIN urls : /\ urls[i].id = activeUrl.id
                                     /\ urls[i].batch_id = bas.selectedBatchId

\* C21: link validity is monotone.  No step sets is_active of a stored link
\* from false back to true, changes its expires_at or its public_id, or removes
\* a row; hence a link whose check is answered 'revoked' or 'expired' at one
\* time is never answered as valid at a later time (it is answered 'revoked',
\* 'expired', or as a failure when several rows carry its public_id).
LinkOutcome(pid) == Classify(MaybeSingle(UrlsByPublicId(pid), FALSE))

C21_LinkValidityIsMonotone ==
    [][ /\ Len(urls') >= Len(urls)
        /\ \A i \in DOMAIN urls :
              /\ urls'[i].id = urls[i].id
              /\ urls'[i].public_id = urls[i].public_id
              /\ urls'[i].expires_at = urls[i].expires_at
              /\ urls'[i].is_active => urls[i].is_active
        /\ now' >= now
        /\ \A pid \in {urls[i].public_id : i \in DOMAIN urls} :
              LinkOutcome(pid) \in {"revoked", "expired"} =>
                 LinkOutcome(pid)' \in {"revoked", "expired", "failed"}
      ]_vars

\* A link that was read while valid is, after its revocation and after its
\* expiry, checked and rejected.
C21_Witness ==
    /\ hist.op = "lookup" /\ hist.result = "revoked"
    /\ LinkRead # NoUrlRow
    /\ LinkRead.last_accessed_at # -1
    /\ LinkRead.expires_at < now
    /\ ~LinkRead.is_active

\* The link rows the check of the mounted view reads.
LinkRows == UrlsByPublicId(pub.publicId)

\* The call of loadBatchStats whose await resolves in this step.
PubAdvanced(r) == PubInFlight(r) /\ pubReq'[r] # pubReq[r] /\ pubReq'[r].pc # pubReq[r].pc

\* The outcome C22 states for a link check: not found, revoked, expired, and
\* only then a failure of the backend.
C22_StatedOutcome ==
    IF LinkRows = {} THEN "notfound"
    ELSE IF ~LinkRead.is_active THEN "revoked"
    ELSE IF LinkRead.expires_at < now THEN "expired"
    ELSE IF hist'.fault THEN "failed"
    ELSE "ok"

\* The outcome of a link check with the failure of the lookup decided first.
C22_AmendedOutcome ==
    IF hist'.fault \/ Cardinality(LinkRows) > 1 THEN "failed"
    ELSE IF LinkRows = {} THEN "notfound"
    ELSE IF ~LinkRead.is_active THEN "revoked"
    ELSE IF LinkRead.expires_at < now THEN "expired"
    ELSE "ok"

\* C22 as stated: the link check of a loadBatchStats call ends in the first
\* outcome that applies in the order not found, revoked, expired, backend
\* failure, success.
C22_Original_OutcomeInStatedOrder ==
    [][ (hist'.op = "lookup" /\ Cardinality(LinkRows) <= 1)
          => hist'.result = C22_StatedOutcome ]_vars

\* C22 amended: each call of loadBatchStats ends in exactly one outcome,
\* decided in the order: missing public id, failure of the link lookup, link
\* not found, link revoked, link expired, failure of a statistics procedure,
\* success.  A link both revoked and expired is reported as revoked; a call
\* that ends at the link check shows that outcome's message, invokes no
\* statistics procedure and writes no row; last_accessed_at is written only
\* by a call that has passed the link check and both procedures.
C22_OneOutcomeInCodeOrder ==
    [][ /\ (pub'.mounted /\ ~pub.mounted /\ pub'.publicId = NoPublicId) =>
              /\ pub'.error = MsgInvalid /\ ~pub'.loading
              /\ pubReq' = pubReq /\ urls' = urls
        /\ hist'.op = "lookup" =>
              /\ hist'.result = C22_AmendedOutcome
              /\ \E r \in DOMAIN pubReq :
                    /\ pubReq[r].pc = "lookup" /\ PubAdvanced(r)
                    /\ \A q \in DOMAIN pubReq \ {r} : pubReq'[q].pc = pubReq[q].pc
                    /\ IF hist'.result = "ok"
                       THEN pubReq'[r].pc = "stats" /\ pub'.error = pub.error
                       ELSE /\ pubReq'[r].pc = "idle"
                            /\ pub'.error = ErrorOf(hist'.result)
                            /\ pub'.studentStats = pub.studentStats
                            /\ pub'.batchOverview = pub.batchOverview
              /\ urls' = urls
        /\ \A r \in DOMAIN pubReq :
              (pubReq[r].pc \in {"stats", "overview"} /\ PubAdvanced(r)) =>
                 /\ urls' = urls
                 /\ pubReq'[r].pc = "idle" <=> hist'.fault
                 /\ hist'.fault => pub'.error = MsgLoadFailed
        /\ \A i \in DOMAIN urls :
              urls'[i].last_accessed_at # urls[i].last_accessed_at =>
                 /\ \E r \in DOMAIN pubReq : pubReq[r].pc = "touch" /\ pubReq'[r].pc = "idle"
                 /\ pub'.error = None
      ]_vars

\* A check of a link both revoked and expired ended as revoked.
C22_Witness ==
    /\ hist.op = "lookup" /\ hist.result = "revoked" /\ ~hist.fault
    /\ pub.error = MsgRevoked
    /\ LinkRead # NoUrlRow /\ ~LinkRead.is_active /\ LinkRead.expires_at < now
    /\ LinkRead.last_accessed_at = -1
    /\ \A r \in DOMAIN pubReq : ~PubInFlight(r)

\* One visit of one page with its calls in flight: UserManagement creating
\* users, the dashboard loading daily statistics, or the public view of a
\* link next to the admin's link panel; every backend call liable to fail.
InitBusy ==
    /\ now = 0
    /\ batches = << BatchRow("b1", <<"a">>) >>
    /\ urls = << [id |-> 1, batch_id |-> "b1", public_id |-> PublicIdFor("b1", 0),
                  is_active |-> TRUE, expires_at |-> ExpiresAtFor(0),
                  created_at |-> 0, last_accessed_at |-> -1] >>
    /\ bas = InitBas
    /\ pub = InitPub
    /\ pubReq = [r \in 1..MaxReq |-> IdleReq]
    /\ tz = 0
    /\ sessions = << SessionRow(1, "b1", 0), SessionRow(2, "b1", 1) >>
    /\ asm = InitAsm
    /\ dash = InitDash(0)
    /\ cal = InitCal(0)
    /\ csv = <<>>
    /\ students = <<>>
    /\ users = << [id |-> AdminId] >>
    /\ bm = InitBm
    /\ um = InitUm
    /\ rls = DeployedRls
    /\ BoardsAtRest
    /\ app = InitApp
    /\ hist = InitHist

OnlyUsersPage == dash = InitDash(0) /\ pub = InitPub /\ bas = InitBas
OnlyDashboard == um = InitUm /\ pub = InitPub /\ bas = InitBas
OnlyLinkPages == um = InitUm /\ dash = InitDash(0)

NextBusy ==
    \/ OnlyUsersPage /\ um = InitUm /\ \E f \in BOOLEAN : UmMount(f)
    \/ \E open \in BOOLEAN : UmShowAddModal(open)
    \/ \E field \in {"email", "password", "name"}, text \in {<<>>, <<"a">>} :
          UmEditNewUser(field, text)
    \/ UmCreateUserStart
    \/ \E f, u \in BOOLEAN : UmSignUpArrive(f, u)
    \/ \E f \in BOOLEAN : UmInsertArrive(f)
    \/ \E f \in BOOLEAN : UmReloadArrive(f)
    \/ OnlyDashboard /\ dash = InitDash(0)
          /\ \E f1, f2 \in BOOLEAN : DashMount(f1, f2, FALSE, FALSE)
    \/ \E d \in AllDates : DashSelectDateStart(d)
    \/ DashRefreshStart
    \/ DashToggleAutoRefresh
    \/ DashTimerStart
    \/ \E k \in 1..MaxReq, f \in BOOLEAN : DashArrive(k, f)
    \/ OnlyLinkPages /\ \E f1, f2, f3, f4 \in BOOLEAN : BasLoadBatches(f1, f2, f3, f4)
    \/ \E f1, f2 \in BOOLEAN : generatePublicUrl(f1, f2)
    \/ \E id \in 1..MaxUrls, c, f1 \in BOOLEAN : revokePublicUrl(id, c, f1, FALSE)
    \/ OnlyLinkPages /\ \E pid \in {NoPublicId, Bogus, PublicIdFor("b1", 0)} : PubMount(pid)
    \/ PubTimerRefresh
    \/ PubManualRefresh
    \/ \E r \in 1..MaxReq, f \in BOOLEAN : PubLookup(r, f)
    \/ \E r \in 1..MaxReq, f \in BOOLEAN : PubStats(r, f)
    \/ \E r \in 1..MaxReq, f \in BOOLEAN : PubOverview(r, f)
    \/ \E r \in 1..MaxReq, f \in BOOLEAN : PubTouch(r, f)

SpecBusy == InitBusy /\ [][NextBusy]_vars

\* C23: once every issued request has completed, no busy flag (loading,
\* refreshing, creating, generating) of a mounted component is true, whether
\* the requests succeeded, failed or returned early.
AllCallsEnded ==
    /\ \A r \in DOMAIN pubReq : ~PubInFlight(r)
    /\ dash.requests = <<>>
    /\ bas.calls = {}
    /\ um.call = "none"

C23_NoBusyFlagAtRest ==
    AllCallsEnded =>
        /\ pub.mounted => ~pub.loading /\ ~pub.refreshing
        /\ dash.mounted => ~dash.loading /\ ~dash.refreshing
        /\ bas # InitBas => ~bas.loading /\ ~bas.generating
        /\ um # InitUm => ~um.loading /\ ~um.creating

\* createUser has ended on a failed signUp.
C23_Witness ==
    /\ AllCallsEnded
    /\ hist.op = "createUser.signUp" /\ hist.fault
    /\ um.notification = Error(MsgUserCreateFailed)
    /\ ~um.creating /\ um.showAddModal

\* C24: for every displayed month and every time-zone offset of the client,
\* the date range loadMonthAttendance sends is the first through the last day
\* of that month, so a session is fetched exactly when its session_date is a
\* day of the displayed month.
C24_MonthRangeIsTheDisplayedMonth ==
    hist.op = "loadMonthAttendance" =>
        /\ ISODateOfLocalDay(cal.currentMonth * DaysInMonth)
              = cal.currentMonth * DaysInMonth
        /\ ISODateOfLocalDay(cal.currentMonth * DaysInMonth + DaysInMonth - 1)
              = cal.currentMonth * DaysInMonth + DaysInMonth - 1
        /\ MonthRows(cal.currentMonth) =
              {i \in DOMAIN sessions :
                  sessions[i].session_date \in MonthDays(cal.currentMonth)}

RECURSIVE SumOfScores(_, _)
SumOfScores(rows, indexes) ==
    IF indexes = {} THEN 0
    ELSE LET i == CHOOSE k \in indexes : TRUE
         IN  rows[i].activeness_score + SumOfScores(rows, indexes \ {i})

\* C25: for every fetched score set the statistics of the activeness board are
\* all zero when the set is empty; otherwise avg is the sum of the activeness
\* scores divided by their number, highest is the greatest score, total is
\* the number of distinct student names and totalModules the number of
\* distinct module numbers.
C25_CalculateStatsSummarises ==
    LET rows == abs.scores
        st == abs.stats
        points == {rows[i].activeness_score : i \in DOMAIN rows}
    IN  IF rows = <<>>
        THEN /\ SameNumber(st.avg, Zero)
             /\ st.highest = 0 /\ st.total = 0 /\ st.totalModules = 0
        ELSE /\ st.avg.den # 0
             /\ st.avg.num * Len(rows) = SumOfScores(rows, DOMAIN rows) * st.avg.den
             /\ st.highest \in points
             /\ \A p \in points : p <= st.highest
             /\ st.total = Cardinality({rows[i].student_name : i \in DOMAIN rows})
             /\ st.totalModules =
                    Cardinality({rows[i].module_number : i \in DOMAIN rows})

\* Three scores were fetched, two of them of one student and two of one
\* module, and their average is not a whole number.
C25_Witness ==
    /\ hist.op = "loadScores" /\ hist.result = "ok"
    /\ abs.scores = BackendModuleScores
    /\ Len(abs.scores) = 3
    /\ abs.stats.total = 2
    /\ abs.stats.totalModules = 2
    /\ abs.stats.highest = 10
    /\ abs.stats.avg.num % abs.stats.avg.den # 0

\* C26: 'Total Candidates' of the interview leaderboard is the number of
\* distinct student names among the fetched rounds.
C26_TotalCandidatesCountsStudents ==
    ad.stats.total =
        Cardinality({ad.rounds[i].student_name : i \in DOMAIN ad.rounds})

\* The public view a share URL is meant for, by the kind of the URL.
ShareView(url) ==
    CASE url[1] = "attend" -> "PublicAttendancePage"
      [] url[1] = "attendance" -> "PublicAttendanceView"
      [] url[1] = "batch-stats" -> "PublicBatchStats"
      [] url[1] = "leaderboard" -> "PublicLeaderboard"
      [] url[1] = "activeness" -> "PublicActivenessBoard"

ShareCopies == {"copy.attend", "copy.view", "copy.stats", "copy.leaderboard",
                "copy.activeness"}
ShareOpens == {"open.attend", "open.view", "open.stats", "open.leaderboard",
               "open.activeness"}

\* C27: every share URL an admin component copies or opens matches a route of
\* App, and the route renders the public view the URL is meant for: this holds
\* for the URL at the moment it is copied, for the page a pasted URL opens, and
\* for the page an opened URL shows.
C27_ShareUrlsReachTheirViews ==
    [][ /\ hist'.op \in ShareCopies =>
              MatchRoutes(app'.clipboard) = ShareView(app'.clipboard)
        /\ hist'.op = "app.paste" => app'.element = ShareView(app.clipboard)
        /\ hist'.op \in ShareOpens => app'.element = ShareView(app'.pathname)
      ]_vars

\* C29: at "/" the admin panel is rendered only while the auth context reports
\* a user and is not loading; while it is loading a placeholder is rendered,
\* and once it has loaded with no user the address is redirected to /login.
C29_PanelOnlyForSignedInUser ==
    /\ app.element = "AdminPanel" =>
           (app.pathname = <<>> /\ app.user # None /\ ~app.loading)
    /\ app.pathname = <<>> =>
           app.element = (IF app.loading THEN "Loading" ELSE "AdminPanel")
    /\ app.redirected =>
           /\ app.pathname = <<"login">> /\ app.element = "LoginPage"
           /\ app.user = None /\ ~app.loading
    /\ hist.op \in {"app.open", "app.auth", "app.paste"} =>
           (app.redirected <=> hist.result = "redirect")

\* The auth context finishes loading with a user while "/" is shown: the
\* placeholder gives way to the admin panel.
C29_Witness ==
    /\ hist.op = "app.auth"
    /\ app.pathname = <<>>
    /\ app.element = "AdminPanel"

HasAdminRow(table) == \E i \in DOMAIN table : table[i].id = AdminId

\* C28: no sequence of confirmDeleteUser, cancel and deleteUser issues a delete
\* for the row of the signed-in admin: userToDelete is never that row, every
\* delete sent names another row, the admin's row stays in the table, and
\* confirmDeleteUser on the admin's own row changes nothing but the
\* notification, which becomes the error, with the dialog closed and
\* userToDelete unset.
C28_OwnRowIsNeverDeleted ==
    [][ /\ um'.userToDelete # AdminId
        /\ (hist'.op = "deleteUser" /\ hist'.result \in {"ok", "error"}) =>
               um.userToDelete \notin {0, AdminId}
        /\ HasAdminRow(users) => HasAdminRow(users')
        /\ (hist'.op = "confirmDeleteUser" /\ hist'.result = "refused") =>
               /\ um' = [um EXCEPT !.notification = Error(MsgOwnAccount)]
               /\ ~um'.showDeleteConfirm
               /\ um'.userToDelete = 0
               /\ users' = users
      ]_vars

\* The admin pressed delete on the own row after another user's row had
\* been deleted: the error is shown and the own row is still stored.
C28_Witness ==
    /\ hist.op = "confirmDeleteUser" /\ hist.result = "refused"
    /\ um.notification = Error(MsgOwnAccount)
    /\ ~um.showDeleteConfirm /\ um.userToDelete = 0
    /\ Len(users) = 1 /\ HasAdminRow(users)

\* Empty or made of blanks only.
Blank(text) == \A i \in DOMAIN text : text[i] = " "

CreateHandlers == {"createBatch", "addStudent", "createLeaderboard", "createUser"}

\* The required text field of a create handler is blank in the state the
\* handler runs in.
RequiredFieldBlank(op) ==
    CASE op = "createBatch" -> Blank(bm.batchName)
      [] op = "addStudent" -> Blank(bm.studentName)
      [] op = "createLeaderboard" -> Blank(ad.newLeaderboardName)
      [] op = "createUser" -> \E field \in {"email", "password", "name"} :
                                  Blank(um.newUser[field])
      [] OTHER -> FALSE

\* C30: createBatch, addStudent, createLeaderboard and createUser, run with a
\* required text field empty or of blanks only, send nothing to the backend:
\* the step sets the component's error message and changes nothing else, no
\* table, no busy flag, no call in flight, no form field.
C30_BlankFieldSendsNothing ==
    [][ (hist'.op \in CreateHandlers /\ RequiredFieldBlank(hist'.op)) =>
            /\ hist'.result = "invalid"
            /\ UNCHANGED <<now, batches, linkVars, attendVars, csv, students,
                           users, rls, moduleScores, interviewRounds,
                           leaderboards, abs, app>>
            /\ bm' = IF hist'.op = "createBatch"
                     THEN [bm EXCEPT !.message = Error(MsgBatchNameMissing)]
                     ELSE IF hist'.op = "addStudent"
                     THEN [bm EXCEPT !.message = Error(MsgStudentNameMissing)]
                     ELSE bm
            /\ ad' = IF hist'.op = "createLeaderboard"
                     THEN [ad EXCEPT !.message = Error(MsgLeaderboardNameMissing)]
                     ELSE ad
            /\ um' = IF hist'.op = "createUser"
                     THEN [um EXCEPT !.notification = Error(MsgFillRequired)]
                     ELSE um
      ]_vars

\* createUser was run with a name of blanks only beside a filled e-mail and
\* password: the error is shown and no sign-up is in flight.
C30_Witness ==
    /\ hist.op = "createUser" /\ hist.result = "invalid"
    /\ um.newUser.name = <<" ">>
    /\ ~Blank(um.newUser.email) /\ ~Blank(um.newUser.password)
    /\ um.notification = Error(MsgFillRequired)
    /\ um.call = "none" /\ ~um.creating

====
